---- MODULE Spec2Model ----
(***************************************************************************)
(* A model of aas-core3.0-testgen: the path hash (common.hash_path), the   *)
(* primitive value synthesizer (primitiving), the creation / wrapping /    *)
(* fixing / preserialization code and the case generator                   *)
(* (generation.generate).                                                   *)
(*                                                                         *)
(* Text is modelled as a sequence of characters.  A character is a TLA+    *)
(* string; an identifier of the meta-model (a property name) is kept as a  *)
(* single indivisible character, since identifiers hold no quote, slash    *)
(* or backslash and repr() never looks inside them.                        *)
(*                                                                         *)
(* The meta-model is cut down to eight concrete classes and one abstract   *)
(* class (Submodel_element) that keep the shapes the code tells apart:     *)
(* str, enumeration, class and list properties, required and optional,     *)
(* a class with concrete descendants, classes inside an Environment.       *)
(* Of generate() the generators of minimal, maximal, type-violation,       *)
(* required-violation, null-violation, length-violation, enum-violation,   *)
(* unexpected-additional-property and value / value-type cases are         *)
(* modelled in Spec.  What the fragment has no property for is modelled    *)
(* on a single property, in a specification of its own: the count of the   *)
(* builder of lists (SpecList), the length violations of strs, bytes and   *)
(* lists (SpecLength), the pattern constraints (SpecPattern), the set      *)
(* constraints (SpecSet) and the loop of the enum sentinel (SpecSentinel). *)
(* The generators of date-time and min-max cases and the additions for     *)
(* Submodel_element_list and Reference are left out.                       *)
(***************************************************************************)
EXTENDS Integers, Sequences, FiniteSets, Bags, TLC

VARIABLES
    hashes,     \* the md5 accumulators alive: id -> the bytes fed so far
    lastCall,   \* the last call of the function under study (hash_path in
                \* SpecHash): its arguments and its result
    salt,       \* which digest function stands for md5 in this behaviour
    unrepairable, \* the class the verifier rejects whatever the hooks do, or ""
    heap,       \* the live instances: id -> instance
    pheap,      \* the nodes of the snapshots: id -> preserialization.Instance
    cases,      \* the cases generate() has yielded in this run
    pc,         \* where the generator is suspended: what it yields next
    minimal_case, \* the local of generate(): position in cases, 0 before
    maximal_case, \* the local of generate(): position in cases, 0 before
    lastFix,    \* the last call of fixing.fix in this run: root, hook log, errors
    verified,   \* the roots on which fix() returned, with their tree then
    run,        \* the first or the second invocation of generate()
    firstRun    \* what the first invocation yielded and how it ended

hashVars == <<hashes, lastCall>>

genVars == <<heap, pheap, cases, pc, minimal_case, maximal_case, lastFix, verified,
             run, firstRun>>

vars == <<hashes, lastCall, salt, unrepairable, heap, pheap, cases, pc,
          minimal_case, maximal_case, lastFix, verified, run, firstRun>>

-----------------------------------------------------------------------------
(* Bounds of the model.                                                     *)

MaxSegs == 2        \* longest sequence of segments handed to hash_path
MaxHashes == 2      \* accumulators created in one behaviour of SpecHash
MaxFedBytes == 12   \* bytes held by all the accumulators of SpecHash together
MaxSalt == 1        \* the digest functions that stand for md5: 0..MaxSalt
MaxLen == 3         \* largest bound of a length constraint, longest value under one
MaxPatterns == 2    \* most pattern constraints inferred for one property
MaxGrown == 3       \* longest run of prefixes on a literal that looks like a sentinel
MaxStrs == 2        \* calls of generate_str_satisfying_pattern after the import
MaxCalls == 2       \* calls of the functions minimal_X of one generated module
MaxProps == 2       \* most properties of Environment in a symbol table of SpecOntology
MaxCases == 2       \* cases constructed in SpecKinds
MaxItems == 2       \* most items of the list of SpecPreserialize
MaxBytes == 18      \* largest min_len and max_len handed to generate_bytes
MaxTurns == 4       \* turns of the loop of generate_bytes that a behaviour follows
MaxTypes == 5       \* most types of a symbol table of SpecOrder
MaxDerived == 1     \* most cases that the generators of derived cases yield for a class
MaxIndex == 2       \* the integer segments of SpecDereference: -MaxIndex..MaxIndex
MaxTail == 1        \* most segments that SpecDereference appends to a path into the container

-----------------------------------------------------------------------------
(* Segments of a path: an int (a list index) or a str (a property name).    *)

None == 0

IntSeg(n) == [t |-> "int", i |-> n, s |-> <<>>]
StrSeg(chars) == [t |-> "str", i |-> 0, s |-> chars]
NameSeg(name) == StrSeg(<<name>>)

RECURSIVE Concat(_)
Concat(seqs) ==
    IF seqs = <<>> THEN <<>> ELSE Head(seqs) \o Concat(Tail(seqs))

Contains(seq, x) == \E k \in 1..Len(seq) : seq[k] = x

\* Python evaluates the arguments of a call before it makes the call: the
\* value is computed first, then the result
Eager(value, result) == IF value = value THEN result ELSE result

\* repr() of a non-negative int: its decimal digits.
RECURSIVE ReprNat(_)
ReprNat(n) ==
    LET digit == <<"0", "1", "2", "3", "4", "5", "6", "7", "8", "9">>[(n % 10) + 1]
    IN IF n < 10 THEN <<digit>> ELSE ReprNat(n \div 10) \o <<digit>>

ReprInt(n) == IF n < 0 THEN <<"-">> \o ReprNat(0 - n) ELSE ReprNat(n)

\* a str between single quotes whatever it holds, nothing escaped
ReprStrUnescaped(chars) == <<"'">> \o chars \o <<"'">>

\* repr() of a str: single quotes, unless the text holds a single quote and no
\* double quote; the quote in use and the backslash are escaped.
ReprStr(chars) ==
    LET quote == IF Contains(chars, "'") /\ ~Contains(chars, "\"")
                 THEN "\"" ELSE "'"
        escaped == [k \in 1..Len(chars) |->
                      IF chars[k] = "\\" THEN <<"\\", "\\">>
                      ELSE IF chars[k] = quote THEN <<"\\", quote>>
                      ELSE <<chars[k]>>]
    IN IF Contains(chars, "\\") \/ Contains(chars, quote)
       THEN <<quote>> \o Concat(escaped) \o <<quote>>
       ELSE <<quote>> \o chars \o <<quote>>

Repr(segment) ==
    IF segment.t = "int" THEN ReprInt(segment.i) ELSE ReprStr(segment.s)

\* str.encode("utf-8"): one byte per ASCII character, two bytes for the
\* character U+00E9 (written "e_acute").
Utf8(chars) ==
    IF Contains(chars, "e_acute")
    THEN Concat([k \in 1..Len(chars) |->
                   IF chars[k] = "e_acute" THEN <<"0xC3", "0xA9">> ELSE <<chars[k]>>])
    ELSE chars

\* f"/{repr(segment)}".encode("utf-8")
SegmentBytes(segment) == Utf8(<<"/">> \o Repr(segment))

-----------------------------------------------------------------------------
(* common.hash_path on the bytes an accumulator has been fed.  An           *)
(* accumulator is the byte string it was fed (hashlib.md5 keeps a digest    *)
(* state that is a function of exactly that).                               *)

Md5New == <<>>

Md5Update(fed, data) == fed \o data

\* The digest of an accumulator.  md5 is modelled by a sum of the codes of the
\* bytes fed, each weighted by its place; the code of a byte is its position
\* in Alphabet.
Alphabet ==
    << "/", "'", "\"", "\\", "-", "0", "1", "2", "3", "4", "5", "6", "7", "8", "9",
       "a", "e_acute", "0xC3", "0xA9",
       "ID", "ID_short", "semantic_ID", "referred_semantic_ID", "derived_from",
       "asset_administration_shells", "submodels", "submodel_elements",
       "value_type", "value", "type", "keys",
       "id", "id_short", "semantic_id", "referred_semantic_id", "min", "max" >>

Code(byte) ==
    IF \E k \in 1..Len(Alphabet) : Alphabet[k] = byte
    THEN CHOOSE k \in 1..Len(Alphabet) : Alphabet[k] = byte
    ELSE Len(Alphabet) + 1

\* the digest of the bytes fed, from the initial state: every byte weighs by
\* its position (BagCardinality adds up the terms)
DigestFrom(state, fed) ==
    IF fed = <<>> THEN state
    ELSE (state + BagCardinality([i \in 1..Len(fed) |-> Code(fed[i]) * (i * i + 1)]))
         % 46337

Digest(fed) == DigestFrom(7 + salt, fed)

\* int(path_hash.hexdigest()[:8], base=16)
Number(path_hash) == Digest(path_hash)

\* common.hash_path with a single segment, on the bytes fed
HashPathSegment(prefixFed, segment) ==
    Md5Update(prefixFed, SegmentBytes(segment))

\* the for-loop with the separator written once, before the first segment only
UpdateAllOneSeparator(fed, segments) ==
    IF segments = <<>> THEN fed
    ELSE Md5Update(fed,
             Utf8(<<"/">> \o Concat([k \in 1..Len(segments) |-> Repr(segments[k])])))

\* the for-loop of the sequence branch: one update per segment, in order; the
\* accumulator ends up fed with the bytes of all the updates in a row
UpdateAll(fed, segments) ==
    Md5Update(fed, Concat([k \in 1..Len(segments) |-> SegmentBytes(segments[k])]))

\* common.hash_path with a sequence of segments, on the bytes fed
HashPathSegments(prefixFed, segments) == UpdateAll(prefixFed, segments)

\* hash_path that feeds the prefix accumulator itself instead of a copy
hash_path_in_place(hs, prefix_hash, single, segments) ==
    IF prefix_hash = None
    THEN [hashes |-> Append(hs, UpdateAll(Md5New, segments)), result |-> Len(hs) + 1]
    ELSE [hashes |-> [hs EXCEPT ![prefix_hash] = UpdateAll(hs[prefix_hash], segments)],
          result |-> prefix_hash]

\* common.hash_path on the accumulators as objects: hs is the heap of
\* accumulators, prefix_hash an id of hs or None; single tells an int or str
\* argument (then segments holds just it) from a sequence argument.  The
\* result is the heap afterwards and the id returned.
hash_path(hs, prefix_hash, single, segments) ==
    LET copy == IF prefix_hash # None THEN hs[prefix_hash] ELSE Md5New
    IN IF single
       THEN [hashes |-> Append(hs, Md5Update(copy, SegmentBytes(segments[1]))),
             result |-> Len(hs) + 1]
       ELSE IF Len(segments) = 0
            THEN IF prefix_hash # None
                 THEN [hashes |-> hs, result |-> prefix_hash]
                 ELSE [hashes |-> Append(hs, Md5New), result |-> Len(hs) + 1]
            ELSE [hashes |-> Append(hs, UpdateAll(copy, segments)),
                  result |-> Len(hs) + 1]

-----------------------------------------------------------------------------
(* SpecHash: callers of hash_path.  Every call takes as prefix None or an   *)
(* accumulator some earlier call returned.                                  *)

HashSegments ==
    {IntSeg(1), StrSeg(<<"1">>), StrSeg(<<>>)}

RECURSIVE SeqsUpTo(_, _)
SeqsUpTo(S, n) ==
    IF n = 0 THEN {<<>>}
    ELSE LET shorter == SeqsUpTo(S, n - 1)
         IN shorter \cup {Append(q, x) : q \in {r \in shorter : Len(r) = n - 1}, x \in S}

NoCall ==
    [prefix |-> None, before |-> <<>>, single |-> FALSE, segments |-> <<>>,
     result |-> None, made |-> FALSE]

\* no fix() called yet
NoFix == [root |-> None, errors |-> {}, raised |-> FALSE, log |-> <<>>]

\* generate() not called
NotStarted == [status |-> "idle", c |-> 1, phase |-> "minimal", k |-> 1]

NoRun == [cases |-> <<>>, status |-> "idle"]

InitHash ==
    /\ hashes = <<>>
    /\ lastCall = NoCall
    /\ salt = 0
    /\ unrepairable = ""
    /\ heap = <<>>
    /\ pheap = <<>>
    /\ cases = <<>>
    /\ pc = NotStarted
    /\ minimal_case = 0
    /\ maximal_case = 0
    /\ lastFix = NoFix
    /\ verified = <<>>
    /\ run = 1
    /\ firstRun = NoRun

CallHashPath(prefix_hash, single, segments) ==
    LET out == hash_path(hashes, prefix_hash, single, segments)
    IN /\ Len(out.hashes) <= MaxHashes
       /\ Len(Concat(out.hashes)) <= MaxFedBytes
       /\ hashes' = out.hashes
       /\ UNCHANGED <<salt, unrepairable>>
       /\ UNCHANGED genVars
       /\ lastCall' = [prefix |-> prefix_hash,
                       before |-> IF prefix_hash = None THEN <<>> ELSE hashes[prefix_hash],
                       single |-> single, segments |-> segments,
                       result |-> out.result, made |-> TRUE]

\* hash_path(prefix_hash, segment) with an int or a str
HashOneSegment ==
    \E prefix_hash \in {None} \cup DOMAIN hashes, segment \in HashSegments :
        CallHashPath(prefix_hash, TRUE, <<segment>>)

\* hash_path(prefix_hash, segments) with a list of segments
HashSegmentList ==
    \E prefix_hash \in {None} \cup DOMAIN hashes,
       segments \in SeqsUpTo(HashSegments, MaxSegs) :
        CallHashPath(prefix_hash, FALSE, segments)

NextHash == HashOneSegment \/ HashSegmentList

SpecHash == InitHash /\ [][NextHash]_vars

-----------------------------------------------------------------------------
(* Claims on hash_path.                                                     *)

\* the accumulator reached from the bytes fed by one hash_path call per segment
RECURSIVE ChainOfSingles(_, _, _)
ChainOfSingles(hs, prefix_hash, segments) ==
    IF segments = <<>>
    THEN IF prefix_hash = None THEN Md5New ELSE hs[prefix_hash]
    ELSE LET out == hash_path(hs, prefix_hash, TRUE, <<Head(segments)>>)
         IN ChainOfSingles(out.hashes, out.result, Tail(segments))

\* C9: a call of hash_path with the sequence [s1, ..., sn] returns an
\* accumulator whose digest equals that of hash_path(... hash_path(p, s1) ...,
\* sn), the chain of single-segment extensions from the same prefix.
C9_SequenceEqualsChain ==
    (lastCall.made /\ ~lastCall.single) =>
        Digest(hashes[lastCall.result]) =
            Digest(ChainOfSingles(<<lastCall.before>>,
                                  IF lastCall.prefix = None THEN None ELSE 1,
                                  lastCall.segments))

C9_Witness ==
    /\ lastCall.made /\ ~lastCall.single
    /\ lastCall.prefix # None
    /\ lastCall.before # <<>>
    /\ Len(lastCall.segments) = 2
    /\ lastCall.segments[1] # lastCall.segments[2]

\* C10: hash_path leaves the digest of its prefix p as it was, and the
\* accumulator it returns is p itself exactly when the argument is an empty
\* sequence; every other argument returns an accumulator that is not p.
C10_PrefixKeptAndCopied ==
    (lastCall.made /\ lastCall.prefix # None) =>
        /\ Digest(hashes[lastCall.prefix]) = Digest(lastCall.before)
        /\ hashes[lastCall.prefix] = lastCall.before
        /\ (lastCall.result = lastCall.prefix)
               <=> (~lastCall.single /\ lastCall.segments = <<>>)

C10_Witness ==
    /\ lastCall.made /\ lastCall.prefix # None
    /\ lastCall.single
    /\ lastCall.segments = <<StrSeg(<<>>)>>
    /\ lastCall.result # lastCall.prefix
    /\ hashes[lastCall.result] # hashes[lastCall.prefix]

-----------------------------------------------------------------------------
(* SpecEncode: a process that hashes one path from scratch and ends,        *)
(* hash_path(None, segments).  The segments are ints and strs whose text    *)
(* holds the characters repr() and the separator give a meaning to.         *)

EncodeSegments ==
    {IntSeg(1), IntSeg(11), StrSeg(<<"1">>),
     StrSeg(<<"a">>), StrSeg(<<"b">>), StrSeg(<<"a", "/", "b">>),
     StrSeg(<<"a", "'", "/", "'", "b">>), StrSeg(<<"a", "\"", "/", "\"", "b">>),
     StrSeg(<<"'">>), StrSeg(<<"\\">>)}

EncodePaths == SeqsUpTo(EncodeSegments, MaxSegs)

\* the bytes the accumulator of hash_path(None, segments) has been fed
FedFor(segments) ==
    LET out == hash_path(<<>>, None, FALSE, segments)
    IN out.hashes[out.result]

FedByPath == [segments \in EncodePaths |-> FedFor(segments)]

EncodePath ==
    \E segments \in EncodePaths :
        LET out == hash_path(<<>>, None, FALSE, segments)
        IN /\ ~lastCall.made
           /\ hashes' = out.hashes
           /\ lastCall' = [prefix |-> None, before |-> <<>>, single |-> FALSE,
                           segments |-> segments, result |-> out.result,
                           made |-> TRUE]
           /\ UNCHANGED <<salt, unrepairable>>
           /\ UNCHANGED genVars

SpecEncode == InitHash /\ [][EncodePath]_vars

\* C11: the bytes fed for a path are an injective function of the path: no
\* other sequence of int / str segments feeds the accumulator the bytes that
\* the hashed path fed it.
C11_FedBytesTellPathsApart ==
    lastCall.made =>
        \A other \in EncodePaths :
            other # lastCall.segments => FedByPath[other] # hashes[lastCall.result]

C11_Witness ==
    /\ lastCall.made
    /\ lastCall.segments = <<StrSeg(<<"a", "'", "/", "'", "b">>)>>
    /\ hashes[lastCall.result] = <<"/", "\"", "a", "'", "/", "'", "b", "\"">>
    /\ FedByPath[<<StrSeg(<<"a">>), StrSeg(<<"b">>)>>]
           = <<"/", "'", "a", "'", "/", "'", "b", "'">>

-----------------------------------------------------------------------------
(* The meta-model handed to the generator: a fragment of the AAS V3.0       *)
(* symbol table.  A property is its name in the meta-model, its type        *)
(* (kind, and target for an enumeration, a class or a list of a class),     *)
(* whether the type is Optional, and the inferred length constraint.        *)

NoBound == 0 - 1

PrimitiveProperty(name, optional) ==
    [name |-> name, kind |-> "str", target |-> "", optional |-> optional,
     min_value |-> NoBound, max_value |-> NoBound]

EnumerationProperty(name, enumeration, optional) ==
    [name |-> name, kind |-> "enum", target |-> enumeration, optional |-> optional,
     min_value |-> NoBound, max_value |-> NoBound]

ClassProperty(name, cls, optional) ==
    [name |-> name, kind |-> "class", target |-> cls, optional |-> optional,
     min_value |-> NoBound, max_value |-> NoBound]

ListProperty(name, cls, optional, min_value) ==
    [name |-> name, kind |-> "list", target |-> cls, optional |-> optional,
     min_value |-> min_value, max_value |-> NoBound]

\* cls.properties, in the order of the meta-model
Properties(cls) ==
    CASE cls = "Asset_administration_shell" ->
            << PrimitiveProperty("ID", FALSE),
               ClassProperty("derived_from", "Reference", TRUE) >>
      [] cls = "Environment" ->
            << ListProperty("asset_administration_shells",
                            "Asset_administration_shell", TRUE, 1),
               ListProperty("submodels", "Submodel", TRUE, 1) >>
      [] cls = "Key" ->
            << EnumerationProperty("type", "Key_types", FALSE),
               PrimitiveProperty("value", FALSE) >>
      [] cls = "Property" ->
            << PrimitiveProperty("ID_short", TRUE),
               EnumerationProperty("value_type", "Data_type_def_XSD", FALSE),
               PrimitiveProperty("value", TRUE) >>
      [] cls = "Range" ->
            << PrimitiveProperty("ID_short", TRUE),
               EnumerationProperty("value_type", "Data_type_def_XSD", FALSE),
               PrimitiveProperty("min", TRUE),
               PrimitiveProperty("max", TRUE) >>
      [] cls = "Reference" ->
            << EnumerationProperty("type", "Reference_types", FALSE),
               ClassProperty("referred_semantic_ID", "Reference", TRUE),
               ListProperty("keys", "Key", FALSE, 1) >>
      [] cls = "Submodel" ->
            << PrimitiveProperty("ID", FALSE),
               ClassProperty("semantic_ID", "Reference", TRUE),
               ListProperty("submodel_elements", "Submodel_element", TRUE, 1) >>
      [] cls = "Submodel_element_collection" ->
            << PrimitiveProperty("ID_short", TRUE),
               ListProperty("value", "Submodel_element", TRUE, 1) >>
      [] cls = "Submodel_element_list" ->
            << PrimitiveProperty("ID_short", TRUE),
               ClassProperty("semantic_ID", "Reference", TRUE),
               ClassProperty("semantic_ID_list_element", "Reference", TRUE),
               ListProperty("value", "Submodel_element", TRUE, 1) >>
      [] OTHER -> <<>>

\* the concrete classes, sorted by name as generate() sorts them
ConcreteClasses ==
    << "Asset_administration_shell", "Environment", "Key", "Property", "Range",
       "Reference", "Submodel", "Submodel_element_collection" >>

\* cls.concrete_descendants
ConcreteDescendants(cls) ==
    IF cls = "Submodel_element"
    THEN <<"Property", "Range", "Submodel_element_collection">>
    ELSE <<>>

IsConcrete(cls) == Contains(ConcreteClasses, cls)

\* the literals of an enumeration, in the order of the enumeration
Literals(enumeration) ==
    CASE enumeration = "Key_types" ->
            <<"AssetAdministrationShell", "GlobalReference", "Property", "Submodel">>
      [] enumeration = "Reference_types" -> <<"ExternalReference", "ModelReference">>
      [] enumeration = "Data_type_def_XSD" -> <<"xs:boolean", "xs:int", "xs:string">>
      [] OTHER -> <<>>

\* python_naming.property_name: the snake-case, lower-case name of the SDK
PropertyName(name) ==
    CASE name = "ID" -> "id"
      [] name = "ID_short" -> "id_short"
      [] name = "semantic_ID" -> "semantic_id"
      [] name = "referred_semantic_ID" -> "referred_semantic_id"
      [] name = "semantic_ID_list_element" -> "semantic_id_list_element"
      [] OTHER -> name

\* the position of the property with the given SDK name among cls.properties;
\* 0 if the class has no such attribute
PropertyIndex(cls, prop_name) ==
    LET Find(props) ==
            IF \E k \in 1..Len(props) : PropertyName(props[k].name) = prop_name
            THEN CHOOSE k \in 1..Len(props) : PropertyName(props[k].name) = prop_name
            ELSE 0
    IN Find(Properties(cls))

-----------------------------------------------------------------------------
(* Values.  A property of a live instance holds None, a str, an             *)
(* enumeration literal, an instance (by identity) or a list of instances.   *)
(* A str is told by its text s and, where the text embeds the first digits  *)
(* of a digest, by the number n of that digest.                             *)

VNone == [k |-> "none", s |-> "", n |-> 0, o |-> 0, l |-> <<>>]
VStr(s, n) == [k |-> "str", s |-> s, n |-> n, o |-> 0, l |-> <<>>]
VEnum(literal) == [k |-> "enum", s |-> literal, n |-> 0, o |-> 0, l |-> <<>>]
VObj(o) == [k |-> "obj", s |-> "", n |-> 0, o |-> o, l |-> <<>>]
VList(l) == [k |-> "list", s |-> "", n |-> 0, o |-> 0, l |-> l]

\* a choice that is seeded anew by every invocation of the generator
choose_value_seeded_by_run(path_hash, choice) ==
    choice[((Number(path_hash) + run) % Len(choice)) + 1]

\* primitiving.choose_value
choose_value(path_hash, choice) ==
    choice[(Number(path_hash) % Len(choice)) + 1]

\* primitiving.generate_str without length bounds: f"something_{hexdigest[:8]}"
generate_str(path_hash) == VStr("something_", Number(path_hash))

\* fixing.generate_urn
generate_urn(path_hash) ==
    LET prefix == choose_value(path_hash,
                      << "urn:something", "urn:example", "urn:an-example",
                         "urn:another-example", "urn:some-company",
                         "urn:another-company", "urn:yet-another-company" >>)
    IN VStr(prefix, Number(path_hash))

\* fixing.generate_id_short: f"something{hexdigest[:8]}"
generate_id_short(path_hash) == VStr("something", Number(path_hash))

\* frozen_examples.xs_value.BY_VALUE_TYPE: the first examples of each type
XsPositives(value_type) ==
    IF value_type = "xs:boolean"
    THEN << [name |-> "true_in_letters", value |-> "true"],
            [name |-> "true_as_number", value |-> "1"] >>
    ELSE IF value_type = "xs:int"
    THEN << [name |-> "common_example", value |-> "1"],
            [name |-> "negative", value |-> "-1"] >>
    ELSE << [name |-> "empty", value |-> ""],
            [name |-> "fuzzed_05", value |-> "J5"] >>

XsNegatives(value_type) ==
    IF value_type = "xs:boolean"
    THEN << [name |-> "true_in_uppercase", value |-> "TRUE"] >>
    ELSE IF value_type = "xs:int"
    THEN << [name |-> "decimal", value |-> "1.2"] >>
    ELSE << [name |-> "NUL_as_x", value |-> "\\x00"] >>

\* fixing.generate_xs_value
generate_xs_value(path_hash, value_type) ==
    LET positives == XsPositives(value_type)
    IN VStr(choose_value(path_hash, [k \in 1..Len(positives) |-> positives[k].value]), 0)

-----------------------------------------------------------------------------
(* Live instances.  The heap is a sequence of instances and the identity    *)
(* of an instance is its position.  An instance holds its class and the     *)
(* values of its properties, in the order of Properties(cls); it also       *)
(* remembers which module constructed it and under which path hash.         *)

NewInstance(cls, props, by, path_hash) ==
    [cls |-> cls, props |-> props, by |-> by, hash |-> path_hash]

\* getattr(instance, prop_name)
Get(h, id, prop_name) == h[id].props[PropertyIndex(h[id].cls, prop_name)]

\* setattr(instance, prop_name, value)
Set(h, id, prop_name, value) ==
    [h EXCEPT ![id].props[PropertyIndex(h[id].cls, prop_name)] = value]

-----------------------------------------------------------------------------
(* creation: the generated builders minimal_X, concrete_minimal_X and       *)
(* concrete_maximal_X.  They return the heap afterwards and the new         *)
(* instance.                                                                *)

RECURSIVE minimal(_, _, _)
RECURSIVE create_arguments(_, _, _, _, _, _)
RECURSIVE list_items(_, _, _, _, _, _)

\* how many items _generate_list_of_instances gives a list property
item_count(prop) ==
    IF prop.max_value = 0 THEN 0
    ELSE IF prop.min_value # NoBound THEN prop.min_value ELSE 1

\* [minimal_X(...)]: the list of the one instance made
single_item(out) == [heap |-> out.heap, ids |-> <<out.id>>]

\* _generate_list_of_instances: the list a builder gives a list property
list_of_instances(h, prop, path_hash) ==
    IF item_count(prop) = 0 THEN [heap |-> h, ids |-> <<>>]
    ELSE IF item_count(prop) = 1
    THEN single_item(minimal(h, prop.target,
                             HashPathSegment(path_hash, NameSeg(prop.name))))
    ELSE list_items(h, prop, path_hash, item_count(prop), 0, <<>>)

\* the items after the one made
next_item(out, prop, path_hash, count, i, ids) ==
    Eager(out, list_items(out.heap, prop, path_hash, count, i + 1, Append(ids, out.id)))

\* [minimal_X(hash_path(path_hash, [name, i])) for i in range(count)]
list_items(h, prop, path_hash, count, i, ids) ==
    IF i >= count THEN [heap |-> h, ids |-> ids]
    ELSE next_item(minimal(h, prop.target,
                           HashPathSegments(path_hash, <<NameSeg(prop.name), IntSeg(i)>>)),
                   prop, path_hash, count, i, ids)

\* the instance made, as the value of a property
instance_value(out) == [heap |-> out.heap, value |-> VObj(out.id)]

\* the list made, as the value of a property
list_value(out) == [heap |-> out.heap, value |-> VList(out.ids)]

\* _generate_property_value: the value a builder gives one property
property_value(h, prop, path_hash) ==
    CASE prop.kind = "str" ->
            [heap |-> h,
             value |-> generate_str(HashPathSegment(path_hash, NameSeg(prop.name)))]
      [] prop.kind = "enum" ->
            [heap |-> h,
             value |-> VEnum(choose_value(HashPathSegment(path_hash, NameSeg(prop.name)),
                                          Literals(prop.target)))]
      [] prop.kind = "class" ->
            instance_value(minimal(h, prop.target,
                                   HashPathSegment(path_hash, NameSeg(prop.name))))
      [] prop.kind = "list" -> list_value(list_of_instances(h, prop, path_hash))

\* the arguments after the one valued
next_argument(out, cls, path_hash, maximal, k, props) ==
    Eager(out, create_arguments(out.heap, cls, path_hash, maximal, k + 1,
                                Append(props, out.value)))

\* _generate_concrete_constructor_call: the arguments from the k-th property
\* on, then the constructor
create_arguments(h, cls, path_hash, maximal, k, props) ==
    IF k > Len(Properties(cls))
    THEN [heap |-> Append(h, NewInstance(cls, props, "creation", path_hash)),
          id |-> Len(h) + 1]
    ELSE IF Properties(cls)[k].optional /\ ~maximal
    THEN create_arguments(h, cls, path_hash, maximal, k + 1, Append(props, VNone))
    ELSE next_argument(property_value(h, Properties(cls)[k], path_hash),
                       cls, path_hash, maximal, k, props)

\* concrete_minimal_X (maximal = FALSE) and concrete_maximal_X (maximal = TRUE)
concrete_create(h, cls, path_hash, maximal) ==
    Eager(path_hash, create_arguments(h, cls, path_hash, maximal, 1, <<>>))

\* _CLASS_NAME_TO_CONCRETE_MINIMALS[cls], as class names
ConcreteMinimals(cls) ==
    (IF IsConcrete(cls) THEN <<cls>> ELSE <<>>) \o ConcreteDescendants(cls)

\* the function minimal_X calls: concrete_minimal_X, or if X has concrete
\* descendants the one of them (or of X itself) that the digest picks
dispatched(cls, path_hash) ==
    IF Len(ConcreteDescendants(cls)) > 0
    THEN ConcreteMinimals(cls)[(Number(path_hash) % Len(ConcreteMinimals(cls))) + 1]
    ELSE cls

\* minimal_X: dispatched on the digest if X has concrete descendants
minimal(h, cls, path_hash) ==
    IF dispatched(cls, path_hash) = cls
    THEN concrete_create(h, cls, path_hash, FALSE)
    ELSE minimal(h, dispatched(cls, path_hash), path_hash)

\* a minimal builder that fills the optional properties too
exact_concrete_minimal_with_optionals(h, path_hash, cls) ==
    concrete_create(h, cls, path_hash, TRUE)

\* exact_concrete_minimal(path_hash, cls.name)
exact_concrete_minimal(h, path_hash, cls) == concrete_create(h, cls, path_hash, FALSE)

\* a maximal builder that leaves the optional properties out
exact_concrete_maximal_without_optionals(h, path_hash, cls) ==
    concrete_create(h, cls, path_hash, FALSE)

\* exact_concrete_maximal(path_hash, cls.name)
exact_concrete_maximal(h, path_hash, cls) == concrete_create(h, cls, path_hash, TRUE)

-----------------------------------------------------------------------------
(* ontology: how the concrete classes are related, and the shortest path    *)
(* from Environment to each of them.                                        *)

SeqRange(seq) == {seq[k] : k \in 1..Len(seq)}

Min(S) == CHOOSE x \in S : \A y \in S : x <= y

Max(S) == CHOOSE x \in S : \A y \in S : y <= x

\* the sum of the first n members of a sequence of numbers
RECURSIVE Sum(_, _)
Sum(seq, n) == IF n = 0 THEN 0 ELSE Sum(seq, n - 1) + seq[n]

NoRelationship == [kind |-> "none", property_name |-> ""]

\* _compute_relationship_map: the edge from source to target.  A property
\* edge replaces a list-property edge; otherwise the first property wins.
Relationship(source, target) ==
    LET Among(props) ==
            LET Candidates(kind) ==
                    {k \in 1..Len(props) :
                        /\ props[k].kind = kind
                        /\ target \in SeqRange(ConcreteMinimals(props[k].target))}
                Pick(classes, lists) ==
                    IF classes # {}
                    THEN [kind |-> "property", property_name |-> props[Min(classes)].name]
                    ELSE IF lists # {}
                    THEN [kind |-> "list", property_name |-> props[Min(lists)].name]
                    ELSE NoRelationship
            IN Pick(Candidates("class"), Candidates("list"))
    IN Among(Properties(source))

\* the cycle-free walks of the class graph that continue the given one
RECURSIVE SimplePathsFrom(_)
SimplePathsFrom(walk) ==
    {walk} \cup
    UNION {SimplePathsFrom(Append(walk, cls)) :
              cls \in {c \in SeqRange(ConcreteClasses) :
                          /\ c \notin SeqRange(walk)
                          /\ Relationship(walk[Len(walk)], c).kind # "none"}}

\* a property edge costs one coin, a list-property edge two
RECURSIVE Weight(_)
Weight(walk) ==
    IF Len(walk) < 2 THEN 0
    ELSE (IF Relationship(walk[1], walk[2]).kind = "property" THEN 1 ELSE 2)
         + Weight(Tail(walk))

\* _compute_shortest_paths_from_environment: class |-> the segments of the
\* cheapest walk from Environment; <<>> for Environment and for a class that
\* is not reachable.  (The fragment has no two cheapest walks to a class.)
shortest_paths ==
    LET Segments(best) ==
            [k \in 1..(Len(best) - 1) |->
                [source |-> best[k], target |-> best[k + 1],
                 relationship |-> Relationship(best[k], best[k + 1])]]
        Cheapest(walks) ==
            IF walks = {} THEN <<>>
            ELSE Segments(CHOOSE w \in walks :
                              \A other \in walks : Weight(w) <= Weight(other))
        To(all) ==
            [cls \in SeqRange(ConcreteClasses) |->
                Cheapest({w \in all : w[Len(w)] = cls})]
    IN To(SimplePathsFrom(<<"Environment">>))

-----------------------------------------------------------------------------
(* wrapping: the generated functions that create an instance inside a       *)
(* fresh Environment.                                                       *)

\* lives_in_environment
lives_in_environment(cls) == Len(shortest_paths[cls]) > 0

\* the body of _X_in_environment from the i-th segment on
RECURSIVE follow_segments(_, _, _, _, _, _, _, _)
follow_segments(h, segments, i, source, path, path_hash, cls_maximal, first_source) ==
    LET prop_name == PropertyName(segments[i].relationship.property_name)
        is_list == segments[i].relationship.kind = "list"
        hops == IF is_list THEN <<NameSeg(prop_name), IntSeg(0)>>
                ELSE <<NameSeg(prop_name)>>
        next_hash == IF is_list THEN HashPathSegments(path_hash, hops)
                     ELSE HashPathSegment(path_hash, NameSeg(prop_name))
        Wire(out) ==
            follow_segments(Set(out.heap, source, prop_name,
                                IF is_list THEN VList(<<out.id>>) ELSE VObj(out.id)),
                            segments, i + 1, out.id, path \o hops, next_hash,
                            cls_maximal, first_source)
    IN Eager(<<h, path_hash>>,
          IF i > Len(segments)
          THEN [heap |-> h, environment |-> first_source, instance |-> source,
                path |-> path]
          ELSE Wire(concrete_create(h, segments[i].target, next_hash,
                                    i = Len(segments) /\ cls_maximal)))

\* _generate_create_cls_in_environment: minimal_in_environment(cls) with
\* maximal = FALSE, maximal_in_environment(cls) with maximal = TRUE
in_environment(h, cls, maximal) ==
    LET path_hash == HashPathSegments(Md5New, <<>>)
        Follow(segments, first) ==
            follow_segments(first.heap, segments, 1, first.id, <<>>, path_hash, maximal,
                            first.id)
    IN Follow(shortest_paths[cls], concrete_create(h, "Environment", path_hash, FALSE))

-----------------------------------------------------------------------------
(* aas_core3.verification, the oracle: the constraints of the meta-model    *)
(* that bear on the fragment.  An error names the instance and the rule.    *)

\* the ids of the instances nested in the properties of the given instance,
\* in the order of the properties and of the list items
ChildrenOf(h, id) ==
    Concat([k \in 1..Len(h[id].props) |->
               IF h[id].props[k].k = "obj" THEN <<h[id].props[k].o>>
               ELSE IF h[id].props[k].k = "list" THEN h[id].props[k].l
               ELSE <<>>])

\* the instances reachable from the given ones (descent)
RECURSIVE ReachableFrom(_, _, _)
ReachableFrom(h, frontier, seen) ==
    IF frontier = {} THEN seen
    ELSE LET next == UNION {SeqRange(ChildrenOf(h, id)) : id \in frontier}
         IN ReachableFrom(h, next \ (seen \cup frontier), seen \cup frontier)

Reachable(h, root) == ReachableFrom(h, {root}, {})

\* verification.value_consistent_with_xsd_type, on the texts of the model
value_consistent_with_xsd_type(value, value_type) ==
    IF value_type = "xs:boolean"
    THEN value.s \in {"true", "false", "1", "0"}
    ELSE IF value_type = "xs:int"
    THEN value.s \in {"1", "-1"}
    ELSE value.s # "\\x00"

AasIdentifiables == {"AssetAdministrationShell", "Submodel"}

\* the type of the first key of a reference; "" without keys
FirstKeyType(h, reference) ==
    LET keys == Get(h, reference, "keys").l
    IN IF Len(keys) = 0 THEN "" ELSE Get(h, keys[1], "type").s

\* the type of the last key of a reference; "" without keys
LastKeyType(h, reference) ==
    LET keys == Get(h, reference, "keys").l
    IN IF Len(keys) = 0 THEN "" ELSE Get(h, keys[Len(keys)], "type").s

\* the rules the given instance itself violates
VerifyInstance(h, id) ==
    LET cls == h[id].cls
        without_id_short(prop_name) ==
            \E item \in SeqRange(Get(h, id, prop_name).l) :
                Get(h, item, "id_short").k = "none"
    IN  (IF cls = unrepairable THEN {"unrepairable"} ELSE {})
        \cup
        (IF cls = "Submodel" /\ without_id_short("submodel_elements")
         THEN {"AASd-117"} ELSE {})
        \cup
        (IF cls = "Submodel_element_collection" /\ without_id_short("value")
         THEN {"AASd-117"} ELSE {})
        \cup
        (IF /\ cls = "Property"
            /\ Get(h, id, "value").k # "none"
            /\ ~value_consistent_with_xsd_type(Get(h, id, "value"),
                                               Get(h, id, "value_type").s)
         THEN {"value-consistent-with-value-type"} ELSE {})
        \cup
        (IF /\ cls = "Range"
            /\ \E bound \in {"min", "max"} :
                  /\ Get(h, id, bound).k # "none"
                  /\ ~value_consistent_with_xsd_type(Get(h, id, bound),
                                                     Get(h, id, "value_type").s)
         THEN {"value-consistent-with-value-type"} ELSE {})
        \cup
        (IF /\ cls = "Reference"
            /\ Get(h, id, "type").s = "ExternalReference"
            /\ FirstKeyType(h, id) # "GlobalReference"
         THEN {"AASd-122"} ELSE {})
        \cup
        (IF /\ cls = "Reference"
            /\ Get(h, id, "type").s = "ModelReference"
            /\ FirstKeyType(h, id) \notin AasIdentifiables
         THEN {"AASd-123"} ELSE {})
        \cup
        (IF /\ cls = "Asset_administration_shell"
            /\ Get(h, id, "derived_from").k # "none"
            /\ LET derived_from == Get(h, id, "derived_from").o
               IN \/ Get(h, derived_from, "type").s # "ModelReference"
                  \/ LastKeyType(h, derived_from) # "AssetAdministrationShell"
         THEN {"derived-from-is-model-reference-to-AAS"} ELSE {})

\* verification.verify(root): the errors of the instance and of all nested
Verify(h, root) ==
    UNION {{[instance |-> id, rule |-> rule] : rule \in VerifyInstance(h, id)} :
              id \in Reachable(h, root)}

-----------------------------------------------------------------------------
(* fixing: the helpers that make references, the repair hooks of _Handyman  *)
(* and the traversal of AbstractHandyman.  A hook returns the heap          *)
(* afterwards and the instances it assigned a property of.                  *)

\* aas_types.Key(type=..., value=...)
NewKey(h, by, type, value) ==
    [heap |-> Append(h, NewInstance("Key", <<VEnum(type), value>>, by, <<>>)),
     id |-> Len(h) + 1]

\* aas_types.Reference(type=..., keys=keys)
NewReference(h, by, type, keys) ==
    [heap |-> Append(h, NewInstance("Reference",
                                    <<VEnum(type), VNone, VList(keys)>>, by, <<>>)),
     id |-> Len(h) + 1]

\* fixing.generate_model_reference
generate_model_reference(h, by, path_hash, expected_type) ==
    LET value_hash(i) ==
            HashPathSegments(path_hash, <<NameSeg("keys"), IntSeg(i), NameSeg("value")>>)
        One(key) == NewReference(key.heap, by, "ModelReference", <<key.id>>)
        Two(first, second) ==
            NewReference(second.heap, by, "ModelReference", <<first.id, second.id>>)
        Second(first) ==
            Two(first, NewKey(first.heap, by, expected_type,
                              generate_id_short(value_hash(1))))
    IN IF expected_type \in AasIdentifiables
       THEN One(NewKey(h, by, expected_type, generate_urn(value_hash(0))))
       ELSE Second(NewKey(h, by, "Submodel", generate_urn(value_hash(0))))

\* fixing.generate_external_reference
generate_external_reference(h, by, path_hash) ==
    LET One(key) == NewReference(key.heap, by, "ExternalReference", <<key.id>>)
    IN One(NewKey(h, by, "GlobalReference",
                  generate_urn(HashPathSegments(path_hash,
                      <<NameSeg("keys"), IntSeg(0), NameSeg("value")>>))))

Fixed(h, wrote) == [heap |-> h, wrote |-> wrote]

\* _Handyman._fix_asset_administration_shell
_fix_asset_administration_shell(h, that, path_hash) ==
    LET Assign(out) == Fixed(Set(out.heap, that, "derived_from", VObj(out.id)), {that})
    IN IF Get(h, that, "derived_from").k # "none"
       THEN Assign(generate_model_reference(h, "fixing",
                       HashPathSegment(path_hash, NameSeg("derived_from")),
                       "AssetAdministrationShell"))
       ELSE Fixed(h, {})

\* _Handyman._fix_property
_fix_property(h, that, path_hash) ==
    IF /\ Get(h, that, "value").k # "none"
       /\ ~value_consistent_with_xsd_type(Get(h, that, "value"),
                                          Get(h, that, "value_type").s)
    THEN Fixed(Set(h, that, "value",
                   generate_xs_value(HashPathSegment(path_hash, NameSeg("value")),
                                     Get(h, that, "value_type").s)),
               {that})
    ELSE Fixed(h, {})

\* _Handyman._fix_range: min is unset if both bounds are set, and the bound
\* that is left is generated anew for the value type
_fix_range(h, that, path_hash) ==
    LET both == Get(h, that, "min").k # "none" /\ Get(h, that, "max").k # "none"
        unset == IF both THEN Set(h, that, "min", VNone) ELSE h
        Renewed(hh, bound) ==
            IF Get(hh, that, bound).k # "none"
            THEN Set(hh, that, bound,
                     generate_xs_value(HashPathSegment(path_hash, NameSeg(bound)),
                                       Get(hh, that, "value_type").s))
            ELSE hh
    IN Fixed(Renewed(Renewed(unset, "min"), "max"),
             IF Get(h, that, "min").k # "none" \/ Get(h, that, "max").k # "none"
             THEN {that} ELSE {})

\* _Handyman._fix_reference
_fix_reference(h, that, path_hash) ==
    LET Assign(key) == Fixed(Set(key.heap, that, "keys", VList(<<key.id>>)), {that})
    IN IF Verify(h, that) = {}
       THEN Fixed(h, {})
       ELSE Assign(NewKey(h, "fixing",
                          IF Get(h, that, "type").s = "ExternalReference"
                          THEN "GlobalReference" ELSE "Submodel",
                          generate_urn(HashPathSegments(path_hash,
                              <<NameSeg("keys"), IntSeg(0), NameSeg("value")>>))))

\* a loop that runs over every submodel element ever constructed instead of
\* the items of the instance at hand
assign_id_shorts_of_all(h, items, i, path_hash, prop_name, wrote) ==
    LET all == {id \in 1..Len(h) :
                   h[id].cls \in {"Property", "Submodel_element_collection"}}
    IN Fixed([id \in 1..Len(h) |->
                 IF id \in all
                 THEN [h[id] EXCEPT !.props[PropertyIndex(h[id].cls, "id_short")] =
                          generate_id_short(HashPathSegments(path_hash,
                              <<NameSeg(prop_name), IntSeg(id), NameSeg("id_short")>>))]
                 ELSE h[id]],
             all)

\* for i, item in enumerate(items): if item.id_short is None: item.id_short = ...
RECURSIVE assign_id_shorts(_, _, _, _, _, _)
assign_id_shorts(h, items, i, path_hash, prop_name, wrote) ==
    IF i >= Len(items) THEN Fixed(h, wrote)
    ELSE LET item == items[i + 1]
         IN IF Get(h, item, "id_short").k = "none"
            THEN assign_id_shorts(
                     Set(h, item, "id_short",
                         generate_id_short(HashPathSegments(path_hash,
                             <<NameSeg(prop_name), IntSeg(i), NameSeg("id_short")>>))),
                     items, i + 1, path_hash, prop_name, wrote \cup {item})
            ELSE assign_id_shorts(h, items, i + 1, path_hash, prop_name, wrote)

\* _Handyman._fix_submodel
_fix_submodel(h, that, path_hash) ==
    IF Get(h, that, "submodel_elements").k # "none"
    THEN assign_id_shorts(h, Get(h, that, "submodel_elements").l, 0, path_hash,
                          "submodel_elements", {})
    ELSE Fixed(h, {})

\* _Handyman._fix_submodel_element_collection
_fix_submodel_element_collection(h, that, path_hash) ==
    IF Get(h, that, "value").k # "none"
    THEN assign_id_shorts(h, Get(h, that, "value").l, 0, path_hash, "value", {})
    ELSE Fixed(h, {})

\* self._fix_X(that, context): the hook of the class of the instance
fix_method(h, that, path_hash) ==
    CASE h[that].cls = "Asset_administration_shell" ->
            _fix_asset_administration_shell(h, that, path_hash)
      [] h[that].cls = "Property" -> _fix_property(h, that, path_hash)
      [] h[that].cls = "Range" -> _fix_range(h, that, path_hash)
      [] h[that].cls = "Reference" -> _fix_reference(h, that, path_hash)
      [] h[that].cls = "Submodel" -> _fix_submodel(h, that, path_hash)
      [] h[that].cls = "Submodel_element_collection" ->
            _fix_submodel_element_collection(h, that, path_hash)
      [] OTHER -> Fixed(h, {})

-----------------------------------------------------------------------------
(* abstract_fixing: the generated traversal.  It threads the heap and the   *)
(* log of the hooks run: which instance, under which path hash, called      *)
(* from the visit of which parent (0 for the root), what was nested in the  *)
(* instance when its hook started, and what the hook assigned to.           *)

RECURSIVE visit_with_context(_, _, _, _)
RECURSIVE visit_properties(_, _, _, _)
RECURSIVE visit_items(_, _, _, _, _)

HookRun(h, that, context, parent, wrote) ==
    [that |-> that, hash |-> context, parent |-> parent,
     nested |-> Reachable(h, that) \ {that}, wrote |-> wrote]

\* the heap as the hook left it, and the log with the run of the hook
Hooked(st, fixed, that, context, parent) ==
    [heap |-> fixed.heap,
     log |-> Append(st.log, HookRun(st.heap, that, context, parent, fixed.wrote))]

\* a visit method that descends first and runs the hook of the instance last
visit_children_first(st, that, context, parent) ==
    LET Last(after) ==
            Hooked(after, fix_method(after.heap, that, context), that, context, parent)
    IN Last(visit_properties(st, that, context, 1))

\* visit_X_with_context: the hook of the instance, then one block per
\* property in the order of the class
visit_with_context(st, that, context, parent) ==
    visit_properties(Hooked(st, fix_method(st.heap, that, context), that, context,
                            parent),
                     that, context, 1)

\* the blocks of the properties from the k-th on
visit_properties(st, that, context, k) ==
    IF k > Len(Properties(st.heap[that].cls)) THEN st
    ELSE LET prop == Properties(st.heap[that].cls)[k]
             value == st.heap[that].props[k]
             prop_hash == HashPathSegment(context, NameSeg(PropertyName(prop.name)))
         IN IF prop.kind = "class" /\ value.k = "obj"
            THEN visit_properties(visit_with_context(st, value.o, prop_hash, that),
                                  that, context, k + 1)
            ELSE IF prop.kind = "list" /\ value.k = "list"
            THEN visit_properties(visit_items(st, value.l, prop_hash, 0, that),
                                  that, context, k + 1)
            ELSE visit_properties(st, that, context, k + 1)

\* for i, item in enumerate(that.prop): visit_with_context(item, hash_path(h, i))
visit_items(st, items, prop_hash, i, parent) ==
    IF i >= Len(items) THEN st
    ELSE visit_items(visit_with_context(st, items[i + 1],
                                        HashPathSegment(prop_hash, IntSeg(i)), parent),
                     items, prop_hash, i + 1, parent)

\* a closing check that lets every verification result pass
never_raises(errors) == FALSE

\* if len(errors) > 0: raise AssertionError(...)
raises_on(errors) == Cardinality(errors) > 0

\* fixing.fix(root): one pass of the handyman, then the closing verification
fix(h, root) ==
    LET Verdict(out, errors) ==
            [heap |-> out.heap, log |-> out.log, root |-> root, errors |-> errors,
             raised |-> raises_on(errors)]
        Closing(out) == Verdict(out, Verify(out.heap, root))
    IN Closing(visit_with_context([heap |-> h, log |-> <<>>], root,
                                  HashPathSegments(Md5New, <<>>), 0))

-----------------------------------------------------------------------------
(* common.dereference_instance and fixing.assert_instance_at_path_in_       *)
(* environment.  A path is a sequence of segments; a str segment is the     *)
(* SDK name of an attribute.                                                *)

\* len() of a str value: its text, and eight hex digits where it embeds them
TextLength(value) == Len(value.s) + (IF value.n > 0 THEN 8 ELSE 0)

RECURSIVE dereference_from(_, _, _, _)
dereference_from(h, something, path, i) ==
    IF i > Len(path)
    THEN IF something.k = "obj"
         THEN [instance |-> something.o, error |-> "", raised |-> FALSE]
         ELSE [instance |-> None, error |-> "Expected an instance", raised |-> FALSE]
    ELSE LET segment == path[i]
         IN IF segment.t = "int"
            THEN IF something.k \notin {"list", "str"}
                 THEN [instance |-> None, error |-> "Expected a sequence",
                       raised |-> FALSE]
                 ELSE LET length == IF something.k = "list" THEN Len(something.l)
                                    ELSE TextLength(something)
                          index == IF segment.i < 0 THEN length + segment.i
                                   ELSE segment.i
                      IN IF length <= segment.i
                         THEN [instance |-> None, error |-> "The sequence has only",
                               raised |-> FALSE]
                         ELSE IF index < 0
                         THEN [instance |-> None, error |-> "", raised |-> TRUE]
                         ELSE IF something.k = "list"
                         THEN dereference_from(h, VObj(something.l[index + 1]), path, i + 1)
                         ELSE dereference_from(h, VStr("character", 0), path, i + 1)
            ELSE IF something.k # "obj"
                 THEN [instance |-> None, error |-> "Expected an instance",
                       raised |-> FALSE]
                 ELSE IF \/ Len(segment.s) # 1
                         \/ PropertyIndex(h[something.o].cls, segment.s[1]) = 0
                 THEN [instance |-> None, error |-> "does not have the attribute",
                       raised |-> FALSE]
                 ELSE dereference_from(h, Get(h, something.o, segment.s[1]), path, i + 1)

\* common.dereference_instance(container, path)
dereference_instance(h, container, path) ==
    dereference_from(h, VObj(container), path, 1)

\* fixing.assert_instance_at_path_in_environment: TRUE when it returns,
\* FALSE when it raises
assert_instance_at_path_in_environment(h, environment, instance, path) ==
    LET found == dereference_instance(h, environment, path)
    IN /\ ~found.raised
       /\ found.error = ""
       /\ found.instance = instance

-----------------------------------------------------------------------------
(* preserialization: the snapshot of a live tree.  A snapshot node holds    *)
(* the class name and an ordered dictionary (keys, and vals in step with    *)
(* them) under the names of the meta-model; it remembers the live instance  *)
(* it was made of.  Nodes live in their own heap, identity is position.     *)

\* the given instances in the order of their allocation, and the place of
\* one of them in that order
InOrder(instances) ==
    [i \in 1..Cardinality(instances) |->
        CHOOSE id \in instances : Cardinality({other \in instances : other < id}) = i - 1]

Rank(instances, id) == Cardinality({other \in instances : other < id}) + 1

\* the calls of transform that self.transform(that) makes, itself included:
\* one for every place at which an instance sits below that
RECURSIVE CallsBelow(_, _)
CallsBelow(h, that) ==
    1 + Sum([c \in 1..Len(ChildrenOf(h, that)) |-> CallsBelow(h, ChildrenOf(h, that)[c])],
            Len(ChildrenOf(h, that)))

\* the calls for the first n of the given instances
CallsOn(h, instances, n) ==
    Sum([i \in 1..Len(instances) |-> CallsBelow(h, instances[i])], n)

\* the calls that the block of a property makes
CallsOfValue(h, value) ==
    IF value.k = "obj" THEN CallsBelow(h, value.o)
    ELSE IF value.k = "list" THEN CallsOn(h, value.l, Len(value.l))
    ELSE 0

\* transform_X(that): the blocks of the properties in the order of the
\* class, an optional property that is None left out, self.transform(...)
\* on every nested instance and on every item of a list, and the Instance
\* over the ordered dictionary at the end.  Every call makes a new node when
\* it returns; made is the number of nodes made before the call.  The
\* result is the nodes of the call in the order of their making, the node
\* of that last.
RECURSIVE transform(_, _, _)
transform(h, that, made) ==
    LET props == Properties(h[that].cls)
        value(k) == h[that].props[k]
        omitted(k) == props[k].optional /\ value(k).k = "none"
        before(k) == made + Sum([j \in 1..Len(props) |-> CallsOfValue(h, value(j))],
                                k - 1)
        before_item(k, i) == before(k) + CallsOn(h, value(k).l, i - 1)
        nested(k) ==
            IF value(k).k = "obj" THEN transform(h, value(k).o, before(k))
            ELSE IF value(k).k = "list"
            THEN Concat([i \in 1..Len(value(k).l) |->
                            transform(h, value(k).l[i], before_item(k, i))])
            ELSE <<>>
        transformed(k) ==
            IF value(k).k = "obj" THEN VObj(before(k) + CallsBelow(h, value(k).o))
            ELSE IF value(k).k = "list"
            THEN VList([i \in 1..Len(value(k).l) |-> before_item(k, i + 1)])
            ELSE IF value(k).k = "enum" THEN VStr(value(k).s, 0)
            ELSE value(k)
    IN Concat([k \in 1..Len(props) |-> nested(k)])
       \o << [cls |-> h[that].cls,
              keys |-> Concat([k \in 1..Len(props) |->
                                  IF omitted(k) THEN <<>> ELSE <<props[k].name>>]),
              vals |-> Concat([k \in 1..Len(props) |->
                                  IF omitted(k) THEN <<>> ELSE <<transformed(k)>>]),
              of |-> that] >>

\* a map that keeps the entry of the first call on an instance
instance_to_first_preserialized(h, nodes, made) ==
    [id \in 1..Len(h) |->
        IF \E n \in 1..Len(nodes) : nodes[n].of = id
        THEN made + Min({n \in 1..Len(nodes) : nodes[n].of = id})
        ELSE 0]

\* self.instance_to_preserialized after the calls: every call assigns
\* self.instance_to_preserialized[that] = preserialized when it returns, so
\* that the node of the last call on an instance stays (0: no entry)
instance_to_preserialized(h, nodes, made) ==
    [id \in 1..Len(h) |->
        IF \E n \in 1..Len(nodes) : nodes[n].of = id
        THEN made + Max({n \in 1..Len(nodes) : nodes[n].of = id})
        ELSE 0]

\* the latest node made of the given live instance; 0 if there is none
LatestNodeOf(ph, instance) ==
    LET made == {id \in 1..Len(ph) : ph[id].of = instance}
    IN IF made = {} THEN 0 ELSE CHOOSE id \in made : \A other \in made : other <= id

\* preserializer.transform(that) on a new _Preserializer: the node heap
\* afterwards, the map and the node of that
transformed_by_new(ph, h, nodes) ==
    [pheap |-> ph \o nodes,
     map |-> instance_to_preserialized(h, nodes, Len(ph)),
     id |-> Len(ph) + Len(nodes)]

\* a preserialize that hands out the snapshot an earlier call made of the
\* same instance, if there is one
preserialize_memoized(ph, h, that) ==
    IF LatestNodeOf(ph, that) # 0
    THEN [pheap |-> ph, map |-> [id \in 1..Len(h) |-> LatestNodeOf(ph, id)],
          id |-> LatestNodeOf(ph, that)]
    ELSE transformed_by_new(ph, h, transform(h, that, Len(ph)))

\* preserialization.preserialize(that): a new _Preserializer, hence a new map
\* and new nodes for the whole tree
preserialize(ph, h, that) == transformed_by_new(ph, h, transform(h, that, Len(ph)))

\* properties[key] = value on a node
SetKey(ph, node, key, value) ==
    IF Contains(ph[node].keys, key)
    THEN LET k == CHOOSE j \in 1..Len(ph[node].keys) : ph[node].keys[j] = key
         IN [ph EXCEPT ![node].vals[k] = value]
    ELSE [ph EXCEPT ![node].keys = Append(@, key), ![node].vals = Append(@, value)]

\* del properties[key] on a node
DelKey(ph, node, key) ==
    LET kept == [j \in 1..Len(ph[node].keys) |-> ph[node].keys[j] # key]
        pick(seq) == Concat([j \in 1..Len(seq) |-> IF kept[j] THEN <<seq[j]>> ELSE <<>>])
    IN [ph EXCEPT ![node].keys = pick(ph[node].keys), ![node].vals = pick(ph[node].vals)]

\* properties[key] of a node
GetKey(ph, node, key) ==
    ph[node].vals[CHOOSE j \in 1..Len(ph[node].keys) : ph[node].keys[j] = key]

\* the snapshot below a node as a value: what the node heap holds, without
\* the identities
RECURSIVE Unfold(_, _)
Unfold(ph, node) ==
    [cls |-> ph[node].cls, keys |-> ph[node].keys,
     vals |-> [j \in 1..Len(ph[node].vals) |->
                 LET value == ph[node].vals[j]
                 IN [k |-> value.k, s |-> value.s, n |-> value.n,
                     nested |-> IF value.k = "obj" THEN <<Unfold(ph, value.o)>>
                                ELSE IF value.k = "list"
                                THEN [i \in 1..Len(value.l) |-> Unfold(ph, value.l[i])]
                                ELSE <<>>]]]

\* the live tree below an instance as a value, identities included
RECURSIVE LiveTree(_, _)
LiveTree(h, instance) ==
    [id |-> instance, cls |-> h[instance].cls,
     props |-> [j \in 1..Len(h[instance].props) |->
                  LET value == h[instance].props[j]
                  IN [k |-> value.k, s |-> value.s, n |-> value.n,
                      nested |-> IF value.k = "obj" THEN <<LiveTree(h, value.o)>>
                                 ELSE IF value.k = "list"
                                 THEN [i \in 1..Len(value.l) |-> LiveTree(h, value.l[i])]
                                 ELSE <<>>]]]

\* copy.deepcopy(container): a new instance for every instance below the
\* container, wired as the originals are.  The result is the heap
\* afterwards and the copy of the container.
copies(h, that, instances) ==
    LET copy_of(id) == Len(h) + Rank(instances, id)
        copied(value) ==
            IF value.k = "obj" THEN VObj(copy_of(value.o))
            ELSE IF value.k = "list"
            THEN VList([i \in 1..Len(value.l) |-> copy_of(value.l[i])])
            ELSE value
        original(i) == h[InOrder(instances)[i]]
    IN [heap |-> h \o [i \in 1..Cardinality(instances) |->
                          [original(i) EXCEPT
                              !.props = [k \in 1..Len(original(i).props) |->
                                            copied(original(i).props[k])]]],
        id |-> copy_of(that)]

deepcopy(h, that) == copies(h, that, Reachable(h, that))

\* a replica that keeps the container in the place of the instance
NewReplicaOfContainer(container, instance, path) ==
    [container |-> container, instance |-> container, path |-> path]

\* Replica(container, instance, path)
NewReplica(container, instance, path) ==
    [container |-> container, instance |-> instance, path |-> path]

\* a replicate that hands out the replica itself, without a copy
replicate_shallow(h, replica) ==
    [heap |-> h, replica |-> replica, raised |-> FALSE]

\* Replica.replicate(): a deep copy of the container, and the instance at
\* the same path in the copy
replicate(h, replica) ==
    LET Found(out, found) ==
            [heap |-> out.heap,
             replica |-> NewReplica(out.id, found.instance, replica.path),
             raised |-> found.raised \/ found.error # ""]
        Copied(out) == Found(out, dereference_instance(out.heap, out.id, replica.path))
    IN Copied(deepcopy(h, replica.container))

-----------------------------------------------------------------------------
(* generation: the cases.  A case holds what the classes of generation.py   *)
(* hold: its kind, the classes, the metadata of its kind, the snapshot of   *)
(* the container and, for the minimal and the maximal case, the snapshot of *)
(* the instance and the replica.  Next to these it remembers the live       *)
(* container it started from and, as values, the snapshot and the live      *)
(* tree of the moment it was made.                                          *)

NoReplica == [container |-> None, instance |-> None, path |-> <<>>]

NoMetadata ==
    [property_name |-> "", example_name |-> "", literal |-> "", bound |-> NoBound]

\* Case.__init__ and the __init__ of its descendants
Case(ph, h, kind, container_class, pcontainer, expected, cls, metadata, pinstance, replica, root) ==
    [kind |-> kind, container_class |-> container_class, pcontainer |-> pcontainer,
     expected |-> expected, cls |-> cls, metadata |-> metadata,
     pinstance |-> pinstance, replica |-> replica, root |-> root,
     tree |-> Unfold(ph, pcontainer),
     live |-> IF replica.container = None THEN <<>>
              ELSE <<LiveTree(h, replica.container)>>]

\* what the building of a minimal or a maximal instance hands on: the heap
\* afterwards, the container, the instance, its path, the call of fix() that
\* was made (root None before it), and whether an exception came out
Built(h, environment, instance, path, fixed, raised) ==
    [heap |-> h, environment |-> environment, instance |-> instance, path |-> path,
     fixed |-> fixed, raised |-> raised]

\* the classes whose environment _generate_{minimal,maximal}_case tailors
Customized == {"Key", "Reference"}

\* the instance before fix(): wrapping.{minimal,maximal}_in_environment(cls)
\* for a class that lives in an environment (for Key and Reference the
\* customized functions start from a minimal Asset_administration_shell),
\* creation.exact_concrete_{minimal,maximal} for a self-contained class
created(h, cls, maximal) ==
    LET Wrapped(out) == Built(out.heap, out.environment, out.instance, out.path, NoFix,
                              FALSE)
        SelfContained(out) == Built(out.heap, out.id, out.id, <<>>, NoFix, FALSE)
        path_hash == HashPathSegments(Md5New, <<>>)
    IN IF lives_in_environment(cls)
       THEN Wrapped(in_environment(h,
                        IF cls \in Customized THEN "Asset_administration_shell"
                        ELSE cls,
                        maximal /\ cls \notin Customized))
       ELSE IF maximal THEN SelfContained(exact_concrete_maximal(h, path_hash, cls))
       ELSE SelfContained(exact_concrete_minimal(h, path_hash, cls))

\* fixing.fix(environment) / fixing.fix(instance)
fixed_after(made) ==
    LET Returned(fixed) == [made EXCEPT !.heap = fixed.heap, !.fixed = fixed,
                                        !.raised = fixed.raised]
    IN Eager(made, Returned(fix(made.heap, made.environment)))

\* fixing.assert_instance_at_path_in_environment(environment, instance, path)
asserted(made) ==
    IF made.raised THEN made
    ELSE [made EXCEPT !.raised =
             ~assert_instance_at_path_in_environment(made.heap, made.environment,
                                                     made.instance, made.path)]

\* instance_of_aas.derived_from = fixing.generate_model_reference(
\*     common.hash_path(path_hash, path_to_aas + ["derived_from"]), ...)
derived_from_assigned(made) ==
    LET Assign(reference) ==
            [made EXCEPT !.heap = Set(reference.heap, made.instance, "derived_from",
                                      VObj(reference.id))]
    IN IF made.raised THEN made
       ELSE Assign(generate_model_reference(made.heap, "generation",
                       HashPathSegments(HashPathSegments(Md5New, <<>>),
                                        made.path \o <<NameSeg("derived_from")>>),
                       "AssetAdministrationShell"))

\* _generate_customized_environment_and_{minimal,maximal}_instance_for_key,
\* after derived_from is assigned: key = instance_of_aas.derived_from.keys[0]
customized_for_key(made) ==
    IF made.raised THEN made
    ELSE [made EXCEPT
             !.instance = Get(made.heap, Get(made.heap, made.instance, "derived_from").o,
                              "keys").l[1],
             !.path = made.path \o <<NameSeg("derived_from"), NameSeg("keys"),
                                     IntSeg(0)>>]

\* _generate_customized_environment_and_{minimal,maximal}_instance_for_
\* reference, after derived_from is assigned: reference = derived_from, and
\* the maximal one gets a referred_semantic_id
customized_for_reference(made, maximal) ==
    LET reference == Get(made.heap, made.instance, "derived_from").o
        path == made.path \o <<NameSeg("derived_from")>>
        Referred(referred) ==
            [made EXCEPT !.heap = Set(referred.heap, reference, "referred_semantic_id",
                                      VObj(referred.id)),
                         !.instance = reference, !.path = path]
    IN IF made.raised THEN made
       ELSE IF maximal
       THEN Referred(generate_external_reference(made.heap, "generation",
                HashPathSegment(
                    HashPathSegments(HashPathSegments(Md5New, <<>>),
                                     made.path \o <<NameSeg("derived_from")>>),
                    NameSeg("referred_semantic_id"))))
       ELSE [made EXCEPT !.instance = reference, !.path = path]

\* the rest of a customized function, for the class it is tailored to
customized(made, cls, maximal) ==
    IF cls = "Key" THEN asserted(customized_for_key(made))
    ELSE asserted(customized_for_reference(made, maximal))

\* after fix(): the rest of the customized function for Key and Reference,
\* and the assertion of _generate_{minimal,maximal}_case
tailored(made, cls, maximal) ==
    Eager(made,
          IF ~lives_in_environment(cls) THEN made
          ELSE IF cls \in Customized
          THEN asserted(customized(derived_from_assigned(asserted(made)), cls, maximal))
          ELSE asserted(made))

\* the try block of _generate_{minimal,maximal}_case up to the case: what
\* is created, fixed, tailored and asserted
built(h, cls, maximal) == tailored(fixed_after(created(h, cls, maximal)), cls, maximal)

\* preserialization.preserialize(environment) and CaseMinimal / CaseMaximal
base_case(ph, cls, maximal, made) ==
    LET Snapshot(snapshot) ==
            [heap |-> made.heap, pheap |-> snapshot.pheap, fixed |-> made.fixed,
             raised |-> FALSE,
             case |-> <<Case(snapshot.pheap, made.heap,
                             IF maximal THEN "Maximal" ELSE "Minimal",
                             IF lives_in_environment(cls) THEN "Environment" ELSE cls,
                             snapshot.id, TRUE, cls, NoMetadata,
                             snapshot.map[made.instance],
                             NewReplica(made.environment, made.instance, made.path),
                             made.environment)>>]
    IN IF made.raised
       THEN [heap |-> made.heap, pheap |-> ph, fixed |-> made.fixed, raised |-> TRUE,
             case |-> <<>>]
       ELSE Snapshot(preserialize(ph, made.heap, made.environment))

\* _generate_minimal_case(cls): the heaps afterwards, the call of fix(),
\* whether the AssertionError came out, and the case otherwise
_generate_minimal_case(h, ph, cls) == base_case(ph, cls, FALSE, built(h, cls, FALSE))

\* _generate_maximal_case(cls)
_generate_maximal_case(h, ph, cls) == base_case(ph, cls, TRUE, built(h, cls, TRUE))

\* what the body of a loop of a generator of derived cases hands on: the
\* heaps afterwards and the case (the classes of the base case, the
\* metadata of the kind), or that an exception came out
Derived(h, ph, kind, base, pcontainer, expected, metadata) ==
    [heap |-> h, pheap |-> ph, raised |-> FALSE,
     case |-> <<Case(ph, h, kind, base.container_class, pcontainer, expected, base.cls,
                     metadata, None, NoReplica, base.replica.container)>>]

\* the region "Replicate" of the generators that mutate a snapshot
Replicated(ph, h, base) ==
    LET Snapshot(snapshot) ==
            [pheap |-> snapshot.pheap, pcontainer |-> snapshot.id,
             pinstance |-> snapshot.map[base.replica.instance]]
    IN Snapshot(preserialize(ph, h, base.replica.container))

\* prop.name in case.preserialized_instance.properties
InSnapshot(ph, case, prop) == Contains(ph[case.pinstance].keys, prop.name)

\* the body of the loop of _generate_type_violations
type_violation(h, ph, base, prop) ==
    LET metadata == [NoMetadata EXCEPT !.property_name = prop.name]
        AsList(copy, reference, unexpected) ==
            Derived(reference.heap,
                    SetKey(unexpected.pheap, copy.pinstance, prop.name,
                           VList(<<unexpected.id>>)),
                    "TypeViolation", base, copy.pcontainer, FALSE, metadata)
        Unexpected(copy, reference) ==
            AsList(copy, reference,
                   preserialize(copy.pheap, reference.heap, reference.id))
        Key(copy, key) ==
            Unexpected(copy, NewReference(key.heap, "generation", "ExternalReference",
                                          <<key.id>>))
        Mutate(copy) ==
            IF prop.kind # "list"
            THEN Key(copy, NewKey(h, "generation", "GlobalReference",
                                  VStr("unexpected instance", 0)))
            ELSE Derived(h, SetKey(copy.pheap, copy.pinstance, prop.name,
                                   VStr("Unexpected string value", 0)),
                         "TypeViolation", base, copy.pcontainer, FALSE, metadata)
    IN Mutate(Replicated(ph, h, base))

\* a required violation that keeps the key and sets it to None
required_violation_by_none(h, ph, base, prop) ==
    LET Mutate(copy) ==
            Derived(h, SetKey(copy.pheap, copy.pinstance, prop.name, VNone),
                    "RequiredViolation", base, copy.pcontainer, FALSE,
                    [NoMetadata EXCEPT !.property_name = prop.name])
    IN Mutate(Replicated(ph, h, base))

\* the body of the loop of _generate_required_violations
required_violation(h, ph, base, prop) ==
    LET Mutate(copy) ==
            Derived(h, DelKey(copy.pheap, copy.pinstance, prop.name),
                    "RequiredViolation", base, copy.pcontainer, FALSE,
                    [NoMetadata EXCEPT !.property_name = prop.name])
    IN Mutate(Replicated(ph, h, base))

\* the body of the loop of _generate_null_violations
null_violation(h, ph, base, prop) ==
    LET Mutate(copy) ==
            Derived(h, SetKey(copy.pheap, copy.pinstance, prop.name, VNone),
                    "NullViolation", base, copy.pcontainer, FALSE,
                    [NoMetadata EXCEPT !.property_name = prop.name])
    IN Mutate(Replicated(ph, h, base))

\* the body of the loop of _generate_length_violations for a minimal length
\* above zero, which the fragment has on lists: values[: min_value - 1]
min_length_violation(h, ph, base, prop) ==
    LET Mutate(copy) ==
            Derived(h,
                    SetKey(copy.pheap, copy.pinstance, prop.name,
                           VList(SubSeq(GetKey(copy.pheap, copy.pinstance, prop.name).l,
                                        1, prop.min_value - 1))),
                    "MinLengthViolation", base, copy.pcontainer, FALSE,
                    [NoMetadata EXCEPT !.property_name = prop.name,
                                       !.bound = prop.min_value])
    IN Mutate(Replicated(ph, h, base))

\* a prefix that adds nothing
so_nothing(invalid_literal) == invalid_literal

\* "so " + invalid_literal
so(invalid_literal) == <<"so ">> \o invalid_literal

\* while invalid_literal in literals_by_value: invalid_literal = "so " + ...
RECURSIVE grown_sentinel(_, _)
grown_sentinel(literals_by_value, invalid_literal) ==
    IF invalid_literal \in literals_by_value
    THEN grown_sentinel(literals_by_value, so(invalid_literal))
    ELSE invalid_literal

\* the text _generate_enum_violations writes in the place of a literal: the
\* sentinel, grown until no literal of the enumeration has it as its value
InvalidLiteral(enumeration) ==
    grown_sentinel({<<Literals(enumeration)[k]>> : k \in 1..Len(Literals(enumeration))},
                   <<"totally utterly invalid">>)

\* the body of the loop of _generate_enum_violations
enum_violation(h, ph, base, prop) ==
    LET Mutate(copy) ==
            Derived(h,
                    SetKey(copy.pheap, copy.pinstance, prop.name,
                           VStr(InvalidLiteral(prop.target), 0)),
                    "EnumViolation", base, copy.pcontainer, FALSE,
                    [NoMetadata EXCEPT !.property_name = prop.name,
                                       !.literal = prop.target])
    IN Mutate(Replicated(ph, h, base))

\* _generate_unexpected_additional_properties
unexpected_additional_property(h, ph, base) ==
    LET additional_prop_name ==
            IF \E k \in 1..Len(Properties(base.cls)) :
                  Properties(base.cls)[k].name = "unexpected_additional_property"
            THEN "really_unexpected_additional_property"
            ELSE "unexpected_additional_property"
        Mutate(copy) ==
            Derived(h,
                    SetKey(copy.pheap, copy.pinstance, additional_prop_name,
                           VStr("INVALID", 0)),
                    "UnexpectedAdditionalProperty", base, copy.pcontainer, FALSE,
                    NoMetadata)
    IN Mutate(Replicated(ph, h, base))

\* the examples that _generate_cases_for_value_and_value_types walks through:
\* per literal of DataTypeDefXSD the positives, then the negatives
ExamplesOf(literal) ==
    [i \in 1..Len(XsPositives(literal)) |->
        [literal |-> literal, name |-> XsPositives(literal)[i].name,
         value |-> XsPositives(literal)[i].value, positive |-> TRUE]]
    \o [i \in 1..Len(XsNegatives(literal)) |->
        [literal |-> literal, name |-> XsNegatives(literal)[i].name,
         value |-> XsNegatives(literal)[i].value, positive |-> FALSE]]

ValueExamples ==
    Concat([j \in 1..Len(Literals("Data_type_def_XSD")) |->
               ExamplesOf(Literals("Data_type_def_XSD")[j])])

\* a case that receives the example but keeps the value type of the
\* minimal instance
value_without_value_type(h, ph, base, example) ==
    LET Snapshot(valued, snapshot) ==
            Derived(valued, snapshot.pheap,
                    IF example.positive THEN "PositiveValueExample"
                    ELSE "InvalidValueExample",
                    base, snapshot.id, example.positive,
                    [NoMetadata EXCEPT !.example_name = example.name,
                                       !.literal = example.literal])
        Mutated(replica, valued) ==
            Snapshot(valued, preserialize(ph, valued, replica.container))
        Mutate(copied) ==
            IF copied.raised
            THEN [heap |-> copied.heap, pheap |-> ph, case |-> <<>>, raised |-> TRUE]
            ELSE Mutated(copied.replica,
                         Set(copied.heap, copied.replica.instance, "value",
                             VStr(example.value, 0)))
    IN Mutate(replicate(h, base.replica))

\* the body of the loops of _generate_cases_for_value_and_value_types: the
\* edit goes to a deep copy of the replica, the snapshot is made afterwards
value_and_value_type(h, ph, base, example) ==
    LET Snapshot(valued, snapshot) ==
            Derived(valued, snapshot.pheap,
                    IF example.positive THEN "PositiveValueExample"
                    ELSE "InvalidValueExample",
                    base, snapshot.id, example.positive,
                    [NoMetadata EXCEPT !.example_name = example.name,
                                       !.literal = example.literal])
        Mutated(replica, valued) ==
            Snapshot(valued, preserialize(ph, valued, replica.container))
        Mutate(copied) ==
            IF copied.raised
            THEN [heap |-> copied.heap, pheap |-> ph, case |-> <<>>, raised |-> TRUE]
            ELSE Mutated(copied.replica,
                         Set(Set(copied.heap, copied.replica.instance, "value_type",
                                 VEnum(example.literal)),
                             copied.replica.instance, "value", VStr(example.value, 0)))
    IN Mutate(replicate(h, base.replica))

-----------------------------------------------------------------------------
(* generate(): the generator.  One action is one next() on it: the code     *)
(* from the yield it is suspended at up to the next yield, or up to the     *)
(* exception or the end.  pc names the yield that comes next: the class     *)
(* (its position in ConcreteClasses), the generator in the body of the      *)
(* loop (phase) and the turn of its own loop (k).                           *)

Phases ==
    << "minimal", "maximal", "type_violation", "required_violation",
       "null_violation", "length_violation", "enum_violation",
       "unexpected_additional_property", "value_and_value_type" >>

\* how many turns the loop of a generator takes for a class
Turns(cls, phase) ==
    CASE phase \in {"minimal", "maximal", "unexpected_additional_property"} -> 1
      [] phase = "value_and_value_type" ->
            IF cls = "Property" THEN Len(ValueExamples) ELSE 0
      [] OTHER -> Len(Properties(cls))

\* whether the k-th turn of the loop of a generator yields, or continues
Yields(ph, cs, min_i, max_i, cls, phase, k) ==
    LET prop == Properties(cls)[k]
    IN CASE phase = "type_violation" -> InSnapshot(ph, cs[max_i], prop)
         [] phase \in {"required_violation", "null_violation"} ->
               InSnapshot(ph, cs[min_i], prop) /\ ~prop.optional
         [] phase = "length_violation" ->
               InSnapshot(ph, cs[max_i], prop) /\ prop.min_value > 0
         [] phase = "enum_violation" -> prop.kind = "enum"
         [] OTHER -> TRUE

\* the yield the generator reaches when it runs on from the k-th turn of
\* the p-th generator of the c-th class
RECURSIVE NextYield(_, _, _, _, _, _, _)
NextYield(ph, cs, min_i, max_i, c, p, k) ==
    IF c > Len(ConcreteClasses)
    THEN [status |-> "running", c |-> c, phase |-> "end", k |-> 1]
    ELSE IF p > Len(Phases) THEN NextYield(ph, cs, min_i, max_i, c + 1, 1, 1)
    ELSE IF k > Turns(ConcreteClasses[c], Phases[p])
    THEN NextYield(ph, cs, min_i, max_i, c, p + 1, 1)
    ELSE IF Yields(ph, cs, min_i, max_i, ConcreteClasses[c], Phases[p], k)
    THEN [status |-> "running", c |-> c, phase |-> Phases[p], k |-> k]
    ELSE NextYield(ph, cs, min_i, max_i, c, p, k + 1)

PhaseIndex(phase) == CHOOSE p \in 1..Len(Phases) : Phases[p] = phase

\* the classes the verifier may reject whatever the hooks do
Unrepairables == {"", "Property", "Submodel_element_collection"}

Init ==
    /\ hashes = <<>>
    /\ lastCall = NoCall
    /\ salt \in 0..MaxSalt
    /\ unrepairable \in Unrepairables
    /\ heap = <<>>
    /\ pheap = <<>>
    /\ cases = <<>>
    /\ pc = [NotStarted EXCEPT !.status = "running"]
    /\ minimal_case = 0
    /\ maximal_case = 0
    /\ lastFix = NoFix
    /\ verified = <<>>
    /\ run = 1
    /\ firstRun = NoRun

At(phase) == pc.status = "running" /\ pc.phase = phase

\* the record of a call of fix(), and of the tree it returned on
Record(fixed) ==
    [root |-> fixed.root, errors |-> fixed.errors, raised |-> fixed.raised,
     log |-> fixed.log]

Verified(fixed, cls) ==
    IF fixed.raised THEN verified
    ELSE Append(verified, [root |-> fixed.root, cls |-> cls,
                           tree |-> LiveTree(fixed.heap, fixed.root)])

\* a generator that gives up the class whose case cannot be built and goes on
\* with the next class
YieldBaseSkippingClass(maximal, out) ==
    /\ heap' = out.heap
    /\ pheap' = out.pheap
    /\ lastFix' = Record(out.fixed)
    /\ verified' = Verified(out.fixed, ConcreteClasses[pc.c])
    /\ cases' = cases \o out.case
    /\ IF out.raised
       THEN /\ pc' = NextYield(out.pheap, cases, minimal_case, maximal_case,
                               pc.c + 1, 1, 1)
            /\ UNCHANGED <<minimal_case, maximal_case>>
       ELSE /\ minimal_case' = IF maximal THEN minimal_case ELSE Len(cases) + 1
            /\ maximal_case' = IF maximal THEN Len(cases) + 1 ELSE maximal_case
            /\ pc' = NextYield(out.pheap, cases \o out.case,
                               IF maximal THEN minimal_case ELSE Len(cases) + 1,
                               IF maximal THEN Len(cases) + 1 ELSE maximal_case,
                               pc.c, PhaseIndex(pc.phase) + 1, 1)
    /\ UNCHANGED <<hashes, lastCall, salt, unrepairable, run, firstRun>>

\* up to "yield minimal_case" / "yield maximal_case"
YieldBase(maximal, out) ==
    /\ heap' = out.heap
    /\ pheap' = out.pheap
    /\ lastFix' = Record(out.fixed)
    /\ verified' = Verified(out.fixed, ConcreteClasses[pc.c])
    /\ cases' = cases \o out.case
    /\ IF out.raised
       THEN /\ pc' = [pc EXCEPT !.status = "raised"]
            /\ UNCHANGED <<minimal_case, maximal_case>>
       ELSE /\ minimal_case' = IF maximal THEN minimal_case ELSE Len(cases) + 1
            /\ maximal_case' = IF maximal THEN Len(cases) + 1 ELSE maximal_case
            /\ pc' = NextYield(out.pheap, cases \o out.case,
                               IF maximal THEN minimal_case ELSE Len(cases) + 1,
                               IF maximal THEN Len(cases) + 1 ELSE maximal_case,
                               pc.c, PhaseIndex(pc.phase) + 1, 1)
    /\ UNCHANGED <<hashes, lastCall, salt, unrepairable, run, firstRun>>

YieldMinimal ==
    /\ At("minimal")
    /\ YieldBase(FALSE, _generate_minimal_case(heap, pheap, ConcreteClasses[pc.c]))

YieldMaximal ==
    /\ At("maximal")
    /\ YieldBase(TRUE, _generate_maximal_case(heap, pheap, ConcreteClasses[pc.c]))

\* up to the yield of a derived case
YieldDerived(out) ==
    /\ heap' = out.heap
    /\ pheap' = out.pheap
    /\ cases' = cases \o out.case
    /\ pc' = IF out.raised THEN [pc EXCEPT !.status = "raised"]
             ELSE NextYield(out.pheap, cases \o out.case, minimal_case, maximal_case,
                            pc.c, PhaseIndex(pc.phase), pc.k + 1)
    /\ UNCHANGED <<hashes, lastCall, salt, unrepairable, run, firstRun,
                   minimal_case, maximal_case, lastFix, verified>>

Prop == Properties(ConcreteClasses[pc.c])[pc.k]

YieldTypeViolation ==
    /\ At("type_violation")
    /\ YieldDerived(type_violation(heap, pheap, cases[maximal_case], Prop))

YieldRequiredViolation ==
    /\ At("required_violation")
    /\ YieldDerived(required_violation(heap, pheap, cases[minimal_case], Prop))

YieldNullViolation ==
    /\ At("null_violation")
    /\ YieldDerived(null_violation(heap, pheap, cases[minimal_case], Prop))

YieldMinLengthViolation ==
    /\ At("length_violation")
    /\ YieldDerived(min_length_violation(heap, pheap, cases[maximal_case], Prop))

YieldEnumViolation ==
    /\ At("enum_violation")
    /\ YieldDerived(enum_violation(heap, pheap, cases[maximal_case], Prop))

YieldUnexpectedAdditionalProperty ==
    /\ At("unexpected_additional_property")
    /\ YieldDerived(unexpected_additional_property(heap, pheap, cases[minimal_case]))

YieldValueExample ==
    /\ At("value_and_value_type")
    /\ YieldDerived(value_and_value_type(heap, pheap, cases[minimal_case],
                                         ValueExamples[pc.k]))

\* the generator runs off its end: StopIteration
Finish ==
    /\ At("end")
    /\ pc' = [pc EXCEPT !.status = "done"]
    /\ UNCHANGED <<hashes, lastCall, salt, unrepairable, heap, pheap, cases,
                   minimal_case, maximal_case, lastFix, verified, run, firstRun>>

\* what of a case the reader of the generator compares
View(case) ==
    [kind |-> case.kind, cls |-> case.cls, container_class |-> case.container_class,
     expected |-> case.expected, metadata |-> case.metadata, tree |-> case.tree]

\* generate() is called once more, on the same symbol table, in the same
\* process: what the first call allocated is still there
SecondInvocation ==
    /\ pc.status \in {"done", "raised"}
    /\ run = 1
    /\ run' = 2
    /\ firstRun' = [cases |-> [i \in 1..Len(cases) |-> View(cases[i])],
                    status |-> pc.status]
    /\ cases' = <<>>
    /\ pc' = [NotStarted EXCEPT !.status = "running"]
    /\ minimal_case' = 0
    /\ maximal_case' = 0
    /\ lastFix' = NoFix
    /\ UNCHANGED <<hashes, lastCall, salt, unrepairable, heap, pheap, verified>>

Next ==
    \/ YieldMinimal
    \/ YieldMaximal
    \/ YieldTypeViolation
    \/ YieldRequiredViolation
    \/ YieldNullViolation
    \/ YieldMinLengthViolation
    \/ YieldEnumViolation
    \/ YieldUnexpectedAdditionalProperty
    \/ YieldValueExample
    \/ Finish
    \/ SecondInvocation

Spec == Init /\ [][Next]_vars

-----------------------------------------------------------------------------
(* Claims on the generator.                                                 *)

BaseKinds == {"Minimal", "Maximal"}

C2_FixReturnsOnlyVerified ==
    /\ (lastFix.root # None) =>
           IF lastFix.errors = {}
           THEN ~lastFix.raised
           ELSE /\ lastFix.raised
                /\ pc.status = "raised"
                /\ \A i \in 1..Len(cases) : cases[i].root # lastFix.root
    /\ \A i \in 1..Len(cases) :
           \E v \in 1..Len(verified) : verified[v].root = cases[i].root

C2_Witness ==
    /\ lastFix.root # None
    /\ lastFix.errors # {}
    /\ pc.status = "raised"
    /\ Len(cases) > 0
    /\ \E v \in 1..Len(verified) : verified[v].root = cases[Len(cases)].root

\* C3: producing derived cases changes neither the live container (and the
\* focus instance inside it) of the replica of a minimal or maximal case, nor
\* the snapshot of that case, nor the snapshot of any case yielded earlier:
\* each equals, structurally, what it was when its case was made.
C3_DerivedLeaveBaseAlone ==
    \A i \in 1..Len(cases) :
        /\ Unfold(pheap, cases[i].pcontainer) = cases[i].tree
        /\ (cases[i].kind \in BaseKinds) =>
               LiveTree(heap, cases[i].replica.container) = cases[i].live[1]

C3_Witness ==
    /\ pc.status = "done"
    /\ \E i, j, k \in 1..Len(cases) :
          /\ i < j /\ j < k
          /\ cases[i].kind = "Minimal" /\ cases[i].cls = "Property"
          /\ cases[j].kind = "RequiredViolation" /\ cases[j].root = cases[i].root
          /\ cases[k].kind = "InvalidValueExample" /\ cases[k].root = cases[i].root
          /\ cases[j].tree # cases[i].tree
          /\ cases[k].tree # cases[i].tree

\* C4: for every minimal and maximal case yielded, following the path of
\* the replica from its container arrives at the focus instance itself
\* (the same identity), also where the hooks of fix() rewrote the container.
C4_PathLeadsToFocus ==
    \A i \in 1..Len(cases) :
        (cases[i].kind \in BaseKinds) =>
            LET found == dereference_instance(heap, cases[i].replica.container,
                                              cases[i].replica.path)
            IN /\ ~found.raised
               /\ found.error = ""
               /\ found.instance = cases[i].replica.instance

C4_Witness ==
    \E i \in 1..Len(cases) :
        /\ cases[i].kind = "Maximal"
        /\ cases[i].cls = "Asset_administration_shell"
        /\ Len(cases[i].replica.path) = 2
        /\ cases[i].replica.instance # cases[i].replica.container
        /\ heap[Get(heap, cases[i].replica.instance, "derived_from").o].by = "fixing"

\* C5 as claimed: the traversal of fix() is post-order, the hook of an
\* instance runs after the hooks of the instances nested in its properties.
C5_PostOrder ==
    \A i, j \in 1..Len(lastFix.log) :
        (lastFix.log[j].parent = lastFix.log[i].that) => j < i

\* C5, amended: the traversal of fix() is pre-order, the hook of an instance
\* runs before the hooks of the instances nested in its properties, which
\* are visited in the order of the properties and of the list items.
C5_PreOrder ==
    \A i, j \in 1..Len(lastFix.log) :
        (lastFix.log[j].parent = lastFix.log[i].that) => i < j

C5_Witness ==
    \E i, j \in 1..Len(lastFix.log) :
        /\ lastFix.log[j].parent = lastFix.log[i].that
        /\ lastFix.log[i].parent # 0
        /\ lastFix.log[j].that \in lastFix.log[i].wrote

C7_VerifiedNeverWritten ==
    \A v \in 1..Len(verified) : LiveTree(heap, verified[v].root) = verified[v].tree

\* C7, amended: once fix() returned on a container, nothing later writes to
\* it or to an instance reachable from it, except that the builders tailored
\* to Key and Reference assign derived_from (and referred_semantic_id) in it
\* before the minimal or maximal case is made; from then on it stays as the
\* case has it.
C7_WrittenOnlyWhileTailored ==
    /\ \A v \in 1..Len(verified) :
           (verified[v].cls \notin Customized) =>
               LiveTree(heap, verified[v].root) = verified[v].tree
    /\ \A v \in 1..Len(verified) : \A i \in 1..Len(cases) :
           (/\ verified[v].cls \in Customized
            /\ cases[i].kind \in BaseKinds
            /\ cases[i].root = verified[v].root) =>
               /\ cases[i].replica.container = verified[v].root
               /\ LiveTree(heap, verified[v].root) = cases[i].live[1]

C7_Witness ==
    /\ \E v \in 1..Len(verified) : \E i, j \in 1..Len(cases) :
          /\ verified[v].cls = "Property"
          /\ cases[i].kind = "Minimal" /\ cases[i].root = verified[v].root
          /\ cases[j].kind = "PositiveValueExample" /\ cases[j].root = verified[v].root
    /\ \E v \in 1..Len(verified) :
          /\ verified[v].cls = "Reference"
          /\ LiveTree(heap, verified[v].root) # verified[v].tree

\* C8: for every instance of a built tree, the path hash the traversal of
\* fix() hands to the hook of the instance has the digest of the path hash
\* under which the builder or the embedder created the instance.
C8_TraversalHashIsCreationHash ==
    \A i \in 1..Len(lastFix.log) :
        (heap[lastFix.log[i].that].by = "creation") =>
            Digest(lastFix.log[i].hash) = Digest(heap[lastFix.log[i].that].hash)

KeysOf(case) == SeqRange(pheap[case.pinstance].keys)

RequiredOf(cls) ==
    {Properties(cls)[k].name : k \in {j \in 1..Len(Properties(cls)) :
                                        ~Properties(cls)[j].optional}}

AllOf(cls) == {Properties(cls)[k].name : k \in 1..Len(Properties(cls))}

\* the case was yielded last, and a hook of the fix pass that made it
\* assigned to a property of its focus instance
FocusRepaired(i) ==
    /\ i = Len(cases)
    /\ \E j \in 1..Len(lastFix.log) : cases[i].replica.instance \in lastFix.log[j].wrote

-----------------------------------------------------------------------------
(* SpecList: the builder of a class fills one list property.  The property  *)
(* is a list of a class of the meta-model under any length constraint       *)
(* infer_for_schema can hand over: no bound, a minimum, a maximum or both.  *)

\* no function called yet, under any of the digest functions
InitCall ==
    /\ hashes = <<>>
    /\ lastCall = NoCall
    /\ salt \in 0..MaxSalt
    /\ unrepairable = ""
    /\ heap = <<>>
    /\ pheap = <<>>
    /\ cases = <<>>
    /\ pc = NotStarted
    /\ minimal_case = 0
    /\ maximal_case = 0
    /\ lastFix = NoFix
    /\ verified = <<>>
    /\ run = 1
    /\ firstRun = NoRun

\* len_constraint.min_value / max_value: None (NoBound) or a length
Bounds == {NoBound} \cup 0..MaxLen

\* the length constraints: the minimum is not above the maximum
LenConstraints ==
    {c \in [min_value : Bounds, max_value : Bounds] :
        (c.min_value # NoBound /\ c.max_value # NoBound) => c.min_value <= c.max_value}

ItemClasses == {"Key", "Property", "Range", "Submodel_element"}

\* the code generated by _generate_list_of_instances runs
BuildList ==
    \E cls \in ItemClasses, len_constraint \in LenConstraints :
        LET prop == [ListProperty("items", cls, FALSE, len_constraint.min_value)
                        EXCEPT !.max_value = len_constraint.max_value]
            out == list_of_instances(heap, prop, HashPathSegments(Md5New, <<>>))
        IN /\ ~lastCall.made
           /\ heap' = out.heap
           /\ lastCall' = [made |-> TRUE, prop |-> prop, ids |-> out.ids]
           /\ UNCHANGED <<hashes, salt, unrepairable, pheap, cases, pc, minimal_case,
                          maximal_case, lastFix, verified, run, firstRun>>

SpecList == InitCall /\ [][BuildList]_vars

\* C15 as stated: the builder gives a list property max(1, min) items, min
\* the minimum of its length constraint if there is one, and no item if the
\* maximum of the constraint is 0.
C15_CountIsMaxOfOneAndMin ==
    lastCall.made =>
        Len(lastCall.ids) =
            IF lastCall.prop.max_value = 0 THEN 0
            ELSE IF lastCall.prop.min_value # NoBound /\ lastCall.prop.min_value > 1
            THEN lastCall.prop.min_value
            ELSE 1

-----------------------------------------------------------------------------
(* SpecLength: _generate_length_violations on one property of the maximal   *)
(* snapshot.  The value of the property is a str, a bytes or a              *)
(* ListOfInstances; a str or a bytes is the sequence of its characters or   *)
(* bytes, a list the sequence of its nodes.                                 *)

_RULER_STR == <<"1", "2", "3", "4", "5", "6", "7", "8", "9", "0">>

\* primitiving.generate_str_padding(length)
generate_str_padding(length) ==
    LET tens == length \div 10
        remainder == length % 10
    IN Concat([t \in 1..tens |-> _RULER_STR]) \o SubSeq(_RULER_STR, 1, remainder)

\* primitiving.generate_bytes_padding(length)
generate_bytes_padding(length) ==
    LET tens == length \div 10
        remainder == length % 10
    IN Concat([t \in 1..tens |-> _RULER_STR]) \o SubSeq(_RULER_STR, 1, remainder)

\* sequence[:stop] for a stop that is not negative
UpTo(sequence, stop) ==
    SubSeq(sequence, 1, IF stop < Len(sequence) THEN stop ELSE Len(sequence))

\* the value a mutation hands on, or the AssertionError
Mutated(new_prop_value) == [raised |-> FALSE, new_prop_value |-> new_prop_value]
AssertionFailed == [raised |-> TRUE, new_prop_value |-> <<>>]

\* a truncation that keeps min_value items
truncated_to_min(type, prop_value, min_value) ==
    Mutated(UpTo(prop_value, min_value))

\* the region "Mutate" of the branch of the minimum
truncated_below_min(type, prop_value, min_value) ==
    IF type \in {"str", "bytes"}
    THEN IF Len(UpTo(prop_value, min_value - 1)) < min_value
         THEN Mutated(UpTo(prop_value, min_value - 1))
         ELSE AssertionFailed
    ELSE Mutated(UpTo(prop_value, min_value - 1))

\* the region "Mutate" of the branch of the maximum
extended_above_max(type, prop_value, max_value) ==
    LET missing == max_value - Len(prop_value) + 1
    IN CASE type = "str" ->
              IF Len(prop_value \o generate_str_padding(missing)) > max_value
              THEN Mutated(prop_value \o generate_str_padding(missing))
              ELSE AssertionFailed
         [] type = "bytes" -> Mutated(prop_value \o generate_bytes_padding(missing))
         [] OTHER ->
              IF Len(prop_value) >= 1
              THEN Mutated(prop_value
                           \o [k \in 1..missing |-> prop_value[Len(prop_value)]])
              ELSE AssertionFailed

\* the values a property of the maximal snapshot can hold under a length
\* constraint: a str or a bytes the verifier accepts, the list the builder
\* made
ValuesUnder(type, len_constraint) ==
    IF type = "ListOfInstances"
    THEN {[k \in 1..item_count(len_constraint) |-> k]}
    ELSE {[k \in 1..n |-> "x"] :
             n \in {m \in 0..MaxLen :
                       /\ len_constraint.min_value # NoBound => m >= len_constraint.min_value
                       /\ len_constraint.max_value # NoBound => m <= len_constraint.max_value}}

LengthViolation(branch, type, prop_value, len_constraint) ==
    LET out == IF branch = "min"
               THEN truncated_below_min(type, prop_value, len_constraint.min_value)
               ELSE extended_above_max(type, prop_value, len_constraint.max_value)
    IN /\ ~lastCall.made
       /\ lastCall' = [made |-> TRUE, branch |-> branch, type |-> type,
                       prop_value |-> prop_value, len_constraint |-> len_constraint,
                       raised |-> out.raised, new_prop_value |-> out.new_prop_value,
                       kind |-> IF out.raised THEN ""
                                ELSE IF branch = "min" THEN "MinLengthViolation"
                                ELSE "MaxLengthViolation"]
       /\ UNCHANGED <<hashes, salt, unrepairable, heap, pheap, cases, pc, minimal_case,
                      maximal_case, lastFix, verified, run, firstRun>>

\* the turn of the loop up to "yield CaseMinLengthViolation"
YieldCaseMinLengthViolation ==
    \E type \in {"str", "bytes", "ListOfInstances"}, len_constraint \in LenConstraints :
        \E prop_value \in ValuesUnder(type, len_constraint) :
            /\ len_constraint.min_value # NoBound /\ len_constraint.min_value > 0
            /\ LengthViolation("min", type, prop_value, len_constraint)

\* the turn of the loop from the branch of the maximum up to
\* "yield CaseMaxLengthViolation"
YieldCaseMaxLengthViolation ==
    \E type \in {"str", "bytes", "ListOfInstances"}, len_constraint \in LenConstraints :
        \E prop_value \in ValuesUnder(type, len_constraint) :
            /\ len_constraint.max_value # NoBound
            /\ LengthViolation("max", type, prop_value, len_constraint)

NextLength == YieldCaseMinLengthViolation \/ YieldCaseMaxLengthViolation

SpecLength == InitCall /\ [][NextLength]_vars

\* C16 as stated: for a property under a maximum max, a list whose maximum
\* is 0 included, a MaxLengthViolation case is emitted, and its value is
\* max + 1 long.
C16_MaxViolationIsOneAboveMax ==
    (lastCall.made /\ lastCall.branch = "max") =>
        /\ lastCall.kind = "MaxLengthViolation"
        /\ Len(lastCall.new_prop_value) = lastCall.len_constraint.max_value + 1

\* C17: for a property under a minimum min > 0, a MinLengthViolation case
\* is emitted, and its value (a str, a bytes or a list) is min - 1 long.
C17_MinViolationIsOneBelowMin ==
    (lastCall.made /\ lastCall.branch = "min") =>
        /\ lastCall.kind = "MinLengthViolation"
        /\ Len(lastCall.new_prop_value) = lastCall.len_constraint.min_value - 1

C17_Witness ==
    /\ lastCall.made /\ lastCall.branch = "min"
    /\ lastCall.type = "str"
    /\ lastCall.len_constraint.min_value = 2
    /\ Len(lastCall.prop_value) = 3
    /\ Len(lastCall.new_prop_value) = 1

-----------------------------------------------------------------------------
(* SpecPattern: a primitive property under pattern constraints, in the      *)
(* generator of the builders (_generate_primitive_property_value) and in    *)
(* the generator of the pattern cases.  A pattern is its regular            *)
(* expression, kept as one name.                                            *)

\* the pattern of the XML serializable strings
XmlPattern == "^[\\x09\\x0A\\x0D\\x20-\\uD7FF\\uE000-\\uFFFD\\U00010000-\\U0010FFFF]*$"

Patterns == {XmlPattern, "^a+$", "^b+$", "^c+$"}

\* frozen_examples_pattern.BY_PATTERN: the names of the examples frozen
BY_PATTERN ==
    [pattern \in {"^a+$", "^b+$"} |->
        [positives |-> <<"fuzzed_01">>, negatives |-> <<"empty", "negatively_fuzzed_01">>]]

\* patterns_by_property.get(prop, None): None, or the constraints
PatternConstraints ==
    {[given |-> FALSE, patterns |-> <<>>]}
    \cup {[given |-> TRUE, patterns |-> patterns] :
             patterns \in SeqsUpTo(Patterns, MaxPatterns) \ {<<>>}}

\* [constraint for constraint in pattern_constraints if constraint.pattern != XML]
pattern_constraints_without_xml(pattern_constraints) ==
    LET kept(k) == IF pattern_constraints[k] = XmlPattern THEN <<>>
                   ELSE <<pattern_constraints[k]>>
    IN Concat([k \in 1..Len(pattern_constraints) |-> kept(k)])

PrimitiveTypes == {"BOOL", "INT", "FLOAT", "STR", "BYTEARRAY"}

\* what _generate_primitive_property_value returns: the call it writes into
\* the builder (the function, and the pattern handed to it), or an error
Call(function, pattern) == [error |-> FALSE, function |-> function, pattern |-> pattern]
GenerationError == [error |-> TRUE, function |-> "", pattern |-> ""]

\* _generate_primitive_property_value; len_constraint and
\* set_of_primitives_constraint tell whether there is one
_generate_primitive_property_value(primitive_type, len_constraint, pattern_constraints, set_of_primitives_constraint) ==
    LET without_xml == pattern_constraints_without_xml(pattern_constraints.patterns)
    IN IF set_of_primitives_constraint THEN Call("choose_value", "")
       ELSE IF primitive_type \in {"BOOL", "INT", "FLOAT"} /\ len_constraint
       THEN GenerationError
       ELSE IF primitive_type \in {"BOOL", "INT", "FLOAT", "BYTEARRAY"}
               /\ pattern_constraints.given
       THEN GenerationError
       ELSE IF primitive_type = "BOOL" THEN Call("generate_bool", "")
       ELSE IF primitive_type = "INT" THEN Call("generate_int", "")
       ELSE IF primitive_type = "FLOAT" THEN Call("generate_float", "")
       ELSE IF primitive_type = "STR"
       THEN IF pattern_constraints.given /\ Len(without_xml) > 1 THEN GenerationError
            ELSE IF pattern_constraints.given /\ Len(without_xml) = 1
            THEN Call("generate_str_satisfying_pattern", without_xml[1])
            ELSE Call("generate_str", "")
       ELSE Call("generate_bytes", "")

\* what the turn of the loop of the generator of pattern cases for one
\* property comes to: the cases it yields, in order, and whether it raises
PatternCases(raised, pattern, examples) ==
    [raised |-> raised,
     cases |-> [k \in 1..Len(examples.positives) |->
                   [kind |-> "PositivePatternExample", pattern |-> pattern,
                    example_name |-> examples.positives[k]]]
               \o [k \in 1..Len(examples.negatives) |->
                      [kind |-> "PatternViolation", pattern |-> pattern,
                       example_name |-> examples.negatives[k]]]]

NoExamples == [positives |-> <<>>, negatives |-> <<>>]

\* a generator of pattern cases that takes the first of several patterns
pattern_examples_for_first_pattern(in_snapshot, pattern_constraints) ==
    LET without_xml == pattern_constraints_without_xml(pattern_constraints.patterns)
    IN IF ~in_snapshot \/ ~pattern_constraints.given \/ Len(without_xml) = 0
       THEN PatternCases(FALSE, "", NoExamples)
       ELSE IF without_xml[1] \notin DOMAIN BY_PATTERN
       THEN PatternCases(TRUE, "", NoExamples)
       ELSE PatternCases(FALSE, without_xml[1], BY_PATTERN[without_xml[1]])

\* the body of the loop of _generate_positive_and_negative_pattern_examples
\* for a property; in_snapshot tells whether the maximal snapshot holds it
pattern_examples(in_snapshot, pattern_constraints) ==
    LET without_xml == pattern_constraints_without_xml(pattern_constraints.patterns)
    IN IF ~in_snapshot \/ ~pattern_constraints.given \/ Len(without_xml) = 0
       THEN PatternCases(FALSE, "", NoExamples)
       ELSE IF Len(without_xml) > 1 \/ without_xml[1] \notin DOMAIN BY_PATTERN
       THEN PatternCases(TRUE, "", NoExamples)
       ELSE PatternCases(FALSE, without_xml[1], BY_PATTERN[without_xml[1]])

PatternUnchanged ==
    UNCHANGED <<hashes, salt, unrepairable, heap, pheap, cases, pc, minimal_case,
                maximal_case, lastFix, verified, run, firstRun>>

\* the generator of the builders reaches a primitive property
GeneratePrimitivePropertyValue ==
    \E primitive_type \in PrimitiveTypes, len_constraint \in BOOLEAN,
       pattern_constraints \in PatternConstraints,
       set_of_primitives_constraint \in BOOLEAN :
        /\ ~lastCall.made
        /\ lastCall' =
               [made |-> TRUE, function |-> "builder",
                arguments |-> [primitive_type |-> primitive_type,
                               len_constraint |-> len_constraint,
                               pattern_constraints |-> pattern_constraints,
                               set_of_primitives_constraint |->
                                   set_of_primitives_constraint],
                patterns |-> pattern_constraints.patterns,
                out |-> _generate_primitive_property_value(primitive_type,
                            len_constraint, pattern_constraints,
                            set_of_primitives_constraint)]
        /\ PatternUnchanged

\* the generator of the pattern cases reaches a property of the maximal case
GeneratePatternExamples ==
    \E in_snapshot \in BOOLEAN, pattern_constraints \in PatternConstraints :
        /\ ~lastCall.made
        /\ lastCall' =
               [made |-> TRUE, function |-> "cases",
                arguments |-> [in_snapshot |-> in_snapshot,
                               pattern_constraints |-> pattern_constraints],
                patterns |-> pattern_constraints.patterns,
                out |-> pattern_examples(in_snapshot, pattern_constraints)]
        /\ PatternUnchanged

NextPattern == GeneratePrimitivePropertyValue \/ GeneratePatternExamples

SpecPattern == InitCall /\ [][NextPattern]_vars

\* C18 as stated: a property with more than one pattern constraint stops
\* the generation with an error: the builder generator reports an error,
\* the case generator raises, and no pattern is picked and no pattern case
\* is emitted.
C18_SeveralPatternsAreAnError ==
    (lastCall.made /\ Len(lastCall.patterns) > 1) =>
        IF lastCall.function = "builder"
        THEN lastCall.out.error
        ELSE lastCall.out.raised /\ lastCall.out.cases = <<>>

\* C18: a property with more than one pattern constraint besides the
\* pattern of the XML serializable strings never gets one of its patterns
\* picked nor a pattern case: the builder generator reports an error unless
\* the property has a set-of-primitives constraint, and the case generator
\* raises if the maximal snapshot holds the property, and passes it over
\* otherwise.
C18_SeveralPatternsBesidesXml ==
    (lastCall.made /\ Len(pattern_constraints_without_xml(lastCall.patterns)) > 1) =>
        IF lastCall.function = "builder"
        THEN /\ lastCall.out.error \/ lastCall.arguments.set_of_primitives_constraint
             /\ lastCall.out.function # "generate_str_satisfying_pattern"
             /\ lastCall.out.pattern = ""
        ELSE /\ lastCall.out.cases = <<>>
             /\ lastCall.out.raised = lastCall.arguments.in_snapshot

C18_Witness ==
    /\ lastCall.made /\ lastCall.function = "cases"
    /\ lastCall.patterns = <<"^a+$", "^b+$">>
    /\ lastCall.arguments.in_snapshot
    /\ lastCall.out.raised

-----------------------------------------------------------------------------
(* SpecSet: the generators of the cases that violate a set constraint, on   *)
(* one property of the minimal case.  A text is the sequence of the pieces  *)
(* it is put together from; a literal of an enumeration is told by its      *)
(* position in the enumeration, as the code tells it by id().               *)

\* the text with the prefix in front of it as often as given
RECURSIVE Prefixed(_, _, _)
Prefixed(prefix, times, text) ==
    IF times = 0 THEN text ELSE <<prefix>> \o Prefixed(prefix, times - 1, text)

\* the texts a set of primitives may hold: some that the loop of
\* _generate_outside_set_of_primitives runs into, some it does not
PrimitiveLiterals ==
    {<<"a">>, <<"really ">>}
    \cup {Prefixed("really ", times, <<"unexpected value">>) : times \in 0..MaxGrown}

\* what a generator of set violations hands on for a property: the value it
\* writes into the snapshot of the CaseSetViolation it yields, or that it
\* passed the property over, or that it raised
SetViolation(value) == [emitted |-> TRUE, raised |-> FALSE, value |-> value]
PassedOver == [emitted |-> FALSE, raised |-> FALSE, value |-> <<>>]
Raised == [emitted |-> FALSE, raised |-> TRUE, value |-> <<>>]

\* while value in value_set: value = f"really {value}"
RECURSIVE outside_value_set(_, _)
outside_value_set(value_set, value) ==
    IF value \in value_set
    THEN outside_value_set(value_set, <<"really ">> \o value)
    ELSE value

\* _generate_outside_set_of_primitives(constraint), in the body of the loop
\* of _generate_violation_of_set_constraint_on_primitive_property
_generate_outside_set_of_primitives(a_type, literals) ==
    IF a_type \in {"BOOL", "INT", "FLOAT", "BYTEARRAY"} THEN Raised
    ELSE SetViolation(outside_value_set(literals, <<"unexpected value">>))

\* the first literal of the enumeration, whatever the constraint allows
first_of_enumeration_literals(enumeration, literals) ==
    IF Len(Literals(enumeration)) = Len(literals) THEN PassedOver
    ELSE SetViolation(Literals(enumeration)[1])

\* _generate_outside_set_of_enumeration_literals(constraint), in the body
\* of the loop of _generate_violation_of_set_constraint_on_enum_property;
\* literals holds the positions of the literals of the constraint
_generate_outside_set_of_enumeration_literals(enumeration, literals) ==
    LET literal_id_set == SeqRange(literals)
        outside == {k \in 1..Len(Literals(enumeration)) : k \notin literal_id_set}
    IN IF Len(Literals(enumeration)) = Len(literals) THEN PassedOver
       ELSE IF ~(Len(Literals(enumeration)) > Len(literals)) \/ outside = {} THEN Raised
       ELSE SetViolation(Literals(enumeration)[Min(outside)])

\* the literals of a SetOfEnumerationLiteralsConstraint: literals of the
\* enumeration, each at most once, in the order of the enumeration
ConstraintLiterals(enumeration) ==
    {literals \in SeqsUpTo(1..Len(Literals(enumeration)), Len(Literals(enumeration))) :
        \A i, j \in 1..Len(literals) : i < j => literals[i] < literals[j]}

SetUnchanged ==
    UNCHANGED <<hashes, salt, unrepairable, heap, pheap, cases, pc, minimal_case,
                maximal_case, lastFix, verified, run, firstRun>>

\* the turn of the loop for a property with a set-of-primitives constraint
YieldPrimitiveSetViolation ==
    \E a_type \in {"STR", "INT"}, literals \in SUBSET PrimitiveLiterals :
        /\ ~lastCall.made
        /\ lastCall' = [made |-> TRUE, function |-> "primitive", allowed |-> literals,
                        domain |-> a_type,
                        out |-> _generate_outside_set_of_primitives(a_type, literals)]
        /\ SetUnchanged

\* the turn of the loop for a property with a set-of-enumeration-literals
\* constraint
YieldEnumSetViolation ==
    \E enumeration \in {"Key_types", "Reference_types", "Data_type_def_XSD"} :
        \E literals \in ConstraintLiterals(enumeration) :
            /\ ~lastCall.made
            /\ lastCall' =
                   [made |-> TRUE, function |-> "enum",
                    allowed |-> {Literals(enumeration)[literals[k]] :
                                    k \in 1..Len(literals)},
                    domain |-> SeqRange(Literals(enumeration)),
                    out |-> _generate_outside_set_of_enumeration_literals(
                                enumeration, literals)]
            /\ SetUnchanged

NextSet == YieldPrimitiveSetViolation \/ YieldEnumSetViolation

SpecSet == InitCall /\ [][NextSet]_vars

\* C19: a SetViolation case is emitted only for a set that leaves a value
\* of the type of the property out (a proper subset of the literals of the
\* enumeration; any finite set of strs), and the value written into the
\* case is a value of the type that is not in the set.
C19_SetViolationIsOutsideTheSet ==
    (lastCall.made /\ lastCall.out.emitted) =>
        /\ lastCall.out.value \notin lastCall.allowed
        /\ IF lastCall.function = "enum"
           THEN /\ lastCall.allowed \subseteq lastCall.domain
                /\ lastCall.allowed # lastCall.domain
                /\ lastCall.out.value \in lastCall.domain
           ELSE lastCall.domain = "STR"

C19_Witness ==
    /\ lastCall.made /\ lastCall.out.emitted
    /\ lastCall.function = "enum"
    /\ lastCall.allowed = {"AssetAdministrationShell", "Property"}
    /\ lastCall.out.value = "GlobalReference"

-----------------------------------------------------------------------------
(* SpecSentinel: the region "Mutate" of _generate_enum_violations, one      *)
(* test of the while loop at a time.  The enumeration has any literals,     *)
(* among them texts the growing sentinel runs into.                         *)

LiteralValues ==
    {<<"Property">>, <<"so ">>}
    \cup {Prefixed("so ", times, <<"totally utterly invalid">>) : times \in 0..MaxGrown}

SentinelUnchanged ==
    UNCHANGED <<hashes, salt, unrepairable, heap, pheap, cases, pc, minimal_case,
                maximal_case, lastFix, verified, run, firstRun>>

\* invalid_literal = "totally utterly invalid"
StartSentinel ==
    \E literals_by_value \in SUBSET LiteralValues :
        /\ ~lastCall.made
        /\ lastCall' = [made |-> TRUE, literals_by_value |-> literals_by_value,
                        invalid_literal |-> <<"totally utterly invalid">>,
                        at |-> "while"]
        /\ SentinelUnchanged

\* the test of the while loop holds: invalid_literal = "so " + invalid_literal
GrowSentinel ==
    /\ lastCall.made /\ lastCall.at = "while"
    /\ lastCall.invalid_literal \in lastCall.literals_by_value
    /\ lastCall' = [lastCall EXCEPT !.invalid_literal = so(lastCall.invalid_literal)]
    /\ SentinelUnchanged

\* the test fails: preserialized_instance.properties[prop.name] = invalid_literal
WriteSentinel ==
    /\ lastCall.made /\ lastCall.at = "while"
    /\ lastCall.invalid_literal \notin lastCall.literals_by_value
    /\ lastCall' = [lastCall EXCEPT !.at = "written"]
    /\ SentinelUnchanged

NextSentinel == StartSentinel \/ GrowSentinel \/ WriteSentinel

\* the loop is sequential code: a test that can be made is made
SpecSentinel ==
    /\ InitCall /\ [][NextSentinel]_vars
    /\ WF_vars(GrowSentinel) /\ WF_vars(WriteSentinel)

\* C20: the loop that grows the sentinel comes to its end whatever the
\* literals of the enumeration are, and the text then written into the
\* EnumViolation case is the value of no literal of the enumeration.
C20_SentinelLoopEndsOutsideTheLiterals ==
    /\ lastCall.made ~> (lastCall.made /\ lastCall.at = "written")
    /\ []((lastCall.made /\ lastCall.at = "written") =>
             /\ lastCall.invalid_literal \notin lastCall.literals_by_value
             /\ lastCall.invalid_literal
                    = grown_sentinel(lastCall.literals_by_value,
                                     <<"totally utterly invalid">>))

C20_Witness ==
    /\ lastCall.made /\ lastCall.at = "written"
    /\ lastCall.invalid_literal = <<"so ", "so ", "totally utterly invalid">>
    /\ Cardinality(lastCall.literals_by_value) = 3

-----------------------------------------------------------------------------
(* SpecLockstep: the import of the package.  frozen_examples/pattern.py and *)
(* frozen_examples/xs_value.py each end with a call of an assertion that    *)
(* compares the catalog of the module with the schema; fixing.py imports    *)
(* primitiving (which imports pattern.py) and then xs_value.py, and         *)
(* generation.py imports fixing.py, so generate() exists only after both.   *)

LockstepPatterns == {"^a+$", "^b+$", "^c+$"}

\* symbol_table.verification_functions: the name of a function is its
\* prefix and the rest; a function that is no PatternVerification has the
\* pattern None
VerificationFunctions ==
    {[name |-> <<"matches_", "id_short">>, is_pattern |-> TRUE, pattern |-> "^a+$"],
     [name |-> <<"matches_xs_", "date_time_UTC">>, is_pattern |-> TRUE, pattern |-> "^b+$"],
     [name |-> <<"matches_xs_", "double">>, is_pattern |-> TRUE, pattern |-> "^c+$"],
     [name |-> <<"is_", "model_reference_to">>, is_pattern |-> FALSE, pattern |-> None]}

\* verification.name.startswith("matches_xs_")
startswith_matches_xs(name) == name[1] = "matches_xs_"

XsdLiterals == {"xs:boolean", "xs:int"}

\* expected, in _assert_all_pattern_verification_functions_covered_and_not_more
expected_patterns(verification_functions, constraint_patterns) ==
    {verification.pattern : verification \in
        {v \in verification_functions :
            v.is_pattern /\ ~startswith_matches_xs(v.name)}}
    \cup constraint_patterns

\* _assert_all_pattern_verification_functions_covered_and_not_more: TRUE
\* when it raises AssertionError
pattern_assertion_raises(verification_functions, constraint_patterns, covered) ==
    LET expected == expected_patterns(verification_functions, constraint_patterns)
        not_covered == expected \ covered
        surplus == covered \ expected
    IN not_covered # {} \/ surplus # {}

\* _assert_all_covered_and_not_more of xs_value.py: TRUE when it raises
xs_value_assertion_raises(literal_values, covered) ==
    LET not_covered == literal_values \ covered
        surplus == covered \ literal_values
    IN not_covered # {} \/ surplus # {}

\* a generator of strs that falls back on generate_str
generate_str_for_pattern_or_any(by_pattern, pattern) ==
    IF pattern \notin by_pattern
    THEN [raised |-> FALSE, function |-> "generate_str", pattern |-> ""]
    ELSE [raised |-> FALSE, function |-> "choose_value", pattern |-> pattern]

\* primitiving.generate_str_satisfying_pattern over the keys of BY_PATTERN:
\* what it raises, or the function it returns the value of and the pattern
\* whose positives it hands to that function
generate_str_satisfying_pattern(by_pattern, pattern) ==
    IF pattern \notin by_pattern
    THEN [raised |-> TRUE, function |-> "", pattern |-> ""]
    ELSE [raised |-> FALSE, function |-> "choose_value", pattern |-> pattern]

LockstepUnchanged ==
    UNCHANGED <<hashes, salt, unrepairable, heap, pheap, cases, pc, minimal_case,
                maximal_case, lastFix, verified, run, firstRun>>

\* import of frozen_examples/pattern.py; the patterns of the inferred
\* constraints are patterns of verification functions of the schema
ImportPattern ==
    \E verification_functions \in SUBSET VerificationFunctions,
       by_pattern \in SUBSET LockstepPatterns :
        \E constraint_patterns \in
               SUBSET {v.pattern : v \in {f \in verification_functions : f.is_pattern}} :
            /\ ~lastCall.made
            /\ lastCall' =
                   [made |-> TRUE,
                    at |-> IF pattern_assertion_raises(verification_functions,
                                                       constraint_patterns, by_pattern)
                           THEN "raised" ELSE "pattern imported",
                    verification_functions |-> verification_functions,
                    constraint_patterns |-> constraint_patterns,
                    by_pattern |-> by_pattern,
                    literal_values |-> {}, by_value_type |-> {},
                    generated |-> FALSE, strs |-> <<>>]
            /\ LockstepUnchanged

\* import of frozen_examples/xs_value.py
ImportXsValue ==
    \E literal_values \in SUBSET XsdLiterals, by_value_type \in SUBSET XsdLiterals :
        /\ lastCall.made /\ lastCall.at = "pattern imported"
        /\ lastCall' =
               [lastCall EXCEPT
                   !.at = IF xs_value_assertion_raises(literal_values, by_value_type)
                          THEN "raised" ELSE "imported",
                   !.literal_values = literal_values,
                   !.by_value_type = by_value_type]
        /\ LockstepUnchanged

\* a call of generate_str_satisfying_pattern, by a builder or by a hook
GenerateStrSatisfyingPattern ==
    \E pattern \in LockstepPatterns :
        /\ lastCall.made /\ lastCall.at = "imported"
        /\ Len(lastCall.strs) < MaxStrs
        /\ lastCall' =
               [lastCall EXCEPT
                   !.generated = TRUE,
                   !.strs = Append(lastCall.strs,
                                [asked |-> pattern,
                                 out |-> generate_str_satisfying_pattern(
                                             lastCall.by_pattern, pattern)])]
        /\ LockstepUnchanged

NextLockstep == ImportPattern \/ ImportXsValue \/ GenerateStrSatisfyingPattern

SpecLockstep == InitCall /\ [][NextLockstep]_vars

\* the patterns and the tags that the schema refers to
ReferencedPatterns ==
    {v.pattern : v \in {f \in lastCall.verification_functions : f.is_pattern}}
    \cup lastCall.constraint_patterns

PastPatternImport == lastCall.made /\ lastCall.at # "raised"

PastXsValueImport == lastCall.made /\ lastCall.at = "imported"

-----------------------------------------------------------------------------
(* SpecDispatch: the code generator of the builders writes                  *)
(* _CLASS_NAME_TO_CONCRETE_MINIMALS and the functions minimal_X from a      *)
(* symbol table, and the functions written are then called.  A symbol table *)
(* is the classes of our_types in their order, the parent of each (0 for    *)
(* none) and whether it is concrete.                                        *)

DispatchClasses ==
    <<"Submodel_element", "Property", "Relationship_element",
      "Annotated_relationship_element">>

SymbolTables ==
    {[parent |-> parent, concrete |-> concrete] :
        parent \in {p \in [1..Len(DispatchClasses) -> 0..Len(DispatchClasses)] :
                       \A k \in 1..Len(DispatchClasses) : p[k] < k},
        concrete \in [1..Len(DispatchClasses) -> BOOLEAN]}

\* whether the class at position d inherits from the class at position k
RECURSIVE InheritsFrom(_, _, _)
InheritsFrom(symbol_table, d, k) ==
    IF symbol_table.parent[d] = 0 THEN FALSE
    ELSE symbol_table.parent[d] = k \/ InheritsFrom(symbol_table, symbol_table.parent[d], k)

\* our_type.concrete_descendants, as positions in our_types
concrete_descendants(symbol_table, k) ==
    LET kept(d) == IF symbol_table.concrete[d] /\ InheritsFrom(symbol_table, d, k)
                   THEN <<d>> ELSE <<>>
    IN Concat([d \in 1..Len(DispatchClasses) |-> kept(d)])

\* a dispatching map that lists the function of the class itself whether
\* the class is concrete or not
class_name_to_minimals_with_itself(symbol_table) ==
    [k \in {c \in 1..Len(DispatchClasses) :
                Len(concrete_descendants(symbol_table, c)) # 0} |->
        <<[function |-> "concrete_minimal", cls |-> k]>>
        \o [i \in 1..Len(concrete_descendants(symbol_table, k)) |->
               [function |-> "minimal", cls |-> concrete_descendants(symbol_table, k)[i]]]]

\* the map that _generate_class_name_to_concrete_minimals writes
_generate_class_name_to_concrete_minimals(symbol_table) ==
    [k \in {c \in 1..Len(DispatchClasses) :
                Len(concrete_descendants(symbol_table, c)) # 0} |->
        (IF symbol_table.concrete[k]
         THEN <<[function |-> "concrete_minimal", cls |-> k]>> ELSE <<>>)
        \o [i \in 1..Len(concrete_descendants(symbol_table, k)) |->
               [function |-> "minimal", cls |-> concrete_descendants(symbol_table, k)[i]]]]

\* whether _generate_create_minimal_cls raises for a class of the table:
\* "Unexpected abstract class without concrete descendants"
generation_raises(symbol_table) ==
    \E k \in 1..Len(DispatchClasses) :
        /\ Len(concrete_descendants(symbol_table, k)) = 0
        /\ ~symbol_table.concrete[k]

\* the function minimal_X that _generate_create_minimal_cls writes, called
\* with a path hash of the given number: the class of the instance returned
RECURSIVE minimal_cls(_, _, _)
minimal_cls(symbol_table, k, number) ==
    IF Len(concrete_descendants(symbol_table, k)) > 0
    THEN LET concrete_minimal_functions ==
                 _generate_class_name_to_concrete_minimals(symbol_table)[k]
             concrete_minimal_function ==
                 concrete_minimal_functions[(number % Len(concrete_minimal_functions)) + 1]
         IN IF concrete_minimal_function.function = "concrete_minimal"
            THEN concrete_minimal_function.cls
            ELSE minimal_cls(symbol_table, concrete_minimal_function.cls, number)
    ELSE k

DispatchHashes == {<<>>, <<"/", "0">>, <<"/", "'", "a", "'">>}

DispatchUnchanged ==
    UNCHANGED <<hashes, salt, unrepairable, heap, pheap, cases, pc, minimal_case,
                maximal_case, lastFix, verified, run, firstRun>>

\* generate_creation.py runs over a symbol table
GenerateCreation ==
    \E symbol_table \in SymbolTables :
        /\ ~lastCall.made
        /\ lastCall' = [made |-> TRUE, symbol_table |-> symbol_table,
                        raised |-> generation_raises(symbol_table), calls |-> <<>>]
        /\ DispatchUnchanged

\* minimal_X(path_hash) of the module generated is called
CallMinimal ==
    \E k \in 1..Len(DispatchClasses), path_hash \in DispatchHashes :
        /\ lastCall.made /\ ~lastCall.raised
        /\ Len(lastCall.calls) < MaxCalls
        /\ lastCall' =
               [lastCall EXCEPT
                   !.calls = Append(lastCall.calls,
                                 [cls |-> k, path_hash |-> path_hash,
                                  number |-> Number(path_hash),
                                  instance |-> minimal_cls(lastCall.symbol_table, k,
                                                           Number(path_hash))])]
        /\ DispatchUnchanged

NextDispatch == GenerateCreation \/ CallMinimal

SpecDispatch == InitCall /\ [][NextDispatch]_vars

\* the variants of a class: the class itself if it is concrete, then its
\* concrete descendants
Variants(symbol_table, k) ==
    (IF symbol_table.concrete[k] THEN <<k>> ELSE <<>>)
    \o concrete_descendants(symbol_table, k)

\* C22: for a class that has concrete descendants, minimal_X(path_hash)
\* returns an instance of a concrete class that is X itself (only if X is
\* concrete) or a descendant of X; the class is the variant at the position
\* "number modulo the count of variants", or, when that variant is another
\* class with concrete descendants, what the same rule picks for it; and two
\* calls for the same class with the same number return the same class.
C22_DispatchIsDeterministicAmongVariants ==
    lastCall.made =>
        \A i \in 1..Len(lastCall.calls) :
            LET call == lastCall.calls[i]
                st == lastCall.symbol_table
                variants == Variants(st, call.cls)
                selected == variants[(call.number % Len(variants)) + 1]
            IN Len(concrete_descendants(st, call.cls)) > 0 =>
                   /\ st.concrete[call.instance]
                   /\ call.instance = call.cls \/ InheritsFrom(st, call.instance, call.cls)
                   /\ call.instance = call.cls => st.concrete[call.cls]
                   /\ \/ call.instance = selected
                      \/ /\ selected # call.cls
                         /\ Len(concrete_descendants(st, selected)) > 0
                         /\ InheritsFrom(st, call.instance, selected)
                         /\ call.instance
                                = Variants(st, selected)[(call.number
                                      % Len(Variants(st, selected))) + 1]
                   /\ \A j \in 1..Len(lastCall.calls) :
                          (lastCall.calls[j].cls = call.cls
                               /\ lastCall.calls[j].number = call.number)
                              => lastCall.calls[j].instance = call.instance

\* Submodel_element is abstract; Property and Relationship_element are
\* concrete children of it, and Relationship_element has the concrete child
\* Annotated_relationship_element; the number picks the second of the three
\* variants of Submodel_element, minimal_Relationship_element, which picks
\* the second of its own two variants
C22_Witness ==
    /\ lastCall.made /\ ~lastCall.raised
    /\ lastCall.symbol_table.parent = <<0, 1, 1, 3>>
    /\ lastCall.symbol_table.concrete = <<FALSE, TRUE, TRUE, TRUE>>
    /\ Len(lastCall.calls) = 2
    /\ lastCall.calls[1].cls = 1 /\ lastCall.calls[2].cls = 1
    /\ lastCall.calls[1].number = lastCall.calls[2].number
    /\ lastCall.calls[1].number % 3 = 1 /\ lastCall.calls[1].number % 2 = 1
    /\ lastCall.calls[1].instance = 4

-----------------------------------------------------------------------------
(* SpecOntology: ontology.compute_class_graph over a symbol table.  The     *)
(* concrete classes are Environment, Submodel, Property and Key in the      *)
(* order of our_types; Submodel_element is abstract with the concrete       *)
(* descendant Property.  A symbol table gives every concrete class its      *)
(* properties: Environment at most MaxProps, every other class at most one. *)

OntologyClasses == <<"Environment", "Submodel", "Property", "Key">>

\* our_type.concrete_descendants of the type of a property
OntologyDescendants(cls) ==
    IF cls = "Submodel_element" THEN <<"Property">> ELSE <<>>

\* intermediate.beneath_optional(prop.type_annotation): a class, or a list
\* of a class; the class is concrete or abstract
PropertyChoices ==
    {[kind |-> kind, our_type |-> our_type] :
        kind \in {"class", "list"},
        our_type \in {"Submodel", "Submodel_element", "Key"}}

OntologyTables ==
    {[cls \in SeqRange(OntologyClasses) |->
         IF cls = "Environment" THEN environment
         ELSE IF cls = "Submodel" THEN submodel
         ELSE IF cls = "Property" THEN property ELSE key] :
        environment \in SeqsUpTo(PropertyChoices, MaxProps),
        submodel \in SeqsUpTo(PropertyChoices, 1),
        property \in SeqsUpTo(PropertyChoices, 1),
        key \in SeqsUpTo(PropertyChoices, 1)}

\* the classes the loops of _compute_relationship_map run over for a type:
\* the concrete descendants of an abstract class; a concrete class itself
\* and then its concrete descendants
targets_of(our_type) ==
    IF our_type \in SeqRange(OntologyClasses)
    THEN <<our_type>> \o OntologyDescendants(our_type)
    ELSE OntologyDescendants(our_type)

\* the map after the loops over the targets of one property
RECURSIVE rel_map_after_targets(_, _, _, _, _)
rel_map_after_targets(rel_map, source, prop, property_name, targets) ==
    IF targets = <<>> THEN rel_map
    ELSE LET source_target == <<source, Head(targets)>>
             set == IF prop.kind = "list"
                    THEN source_target \notin DOMAIN rel_map
                    ELSE \/ source_target \notin DOMAIN rel_map
                         \/ rel_map[source_target].kind = "list"
             rel == [kind |-> IF prop.kind = "list" THEN "list" ELSE "property",
                     property_name |-> property_name]
         IN rel_map_after_targets(
                IF set THEN (source_target :> rel) @@ rel_map ELSE rel_map,
                source, prop, property_name, Tail(targets))

\* the map after the properties of our_types[c] from the k-th on, and after
\* the classes that follow
RECURSIVE rel_map_after(_, _, _, _)
rel_map_after(symbol_table, rel_map, c, k) ==
    IF c > Len(OntologyClasses) THEN rel_map
    ELSE IF k > Len(symbol_table[OntologyClasses[c]])
    THEN rel_map_after(symbol_table, rel_map, c + 1, 1)
    ELSE rel_map_after(
             symbol_table,
             rel_map_after_targets(rel_map, OntologyClasses[c],
                                   symbol_table[OntologyClasses[c]][k], k,
                                   targets_of(symbol_table[OntologyClasses[c]][k].our_type)),
             c, k + 1)

\* ontology._compute_relationship_map; a property is named by its position
_compute_relationship_map(symbol_table) ==
    rel_map_after(symbol_table, <<>>, 1, 1)

\* a graph whose edges all weigh the same
edge_weight_of_one_hop(relationship) == 1

\* graph.add_edge(source, target, weight=...)
edge_weight(relationship) ==
    IF relationship.kind = "property" THEN 1 ELSE 2

PositionOf(cls) == CHOOSE c \in 1..Len(OntologyClasses) : OntologyClasses[c] = cls

\* networkx.single_source_dijkstra: the paths to the nodes reached, given
\* the distances and the paths seen so far and the nodes done; of the nodes
\* at the same distance the one added to the graph first is taken first
RECURSIVE dijkstra(_, _, _, _)

\* the nodes that the edges out of u bring nearer
improved_through(relationship_map, dist, done, u) ==
    {v \in SeqRange(OntologyClasses) \ (done \cup {u}) :
        /\ <<u, v>> \in DOMAIN relationship_map
        /\ \/ v \notin DOMAIN dist
           \/ dist[u] + edge_weight(relationship_map[<<u, v>>]) < dist[v]}

relaxed(relationship_map, dist, paths, done, u, improved) ==
    dijkstra(relationship_map,
             [v \in DOMAIN dist \cup improved |->
                 IF v \in improved
                 THEN dist[u] + edge_weight(relationship_map[<<u, v>>])
                 ELSE dist[v]],
             [v \in DOMAIN paths \cup improved |->
                 IF v \in improved THEN Append(paths[u], v) ELSE paths[v]],
             done \cup {u})

nearest_of(dist, fringe) ==
    CHOOSE n \in fringe :
        \A o \in fringe :
            dist[n] < dist[o] \/ (dist[n] = dist[o] /\ PositionOf(n) <= PositionOf(o))

relaxed_through(relationship_map, dist, paths, done, u) ==
    relaxed(relationship_map, dist, paths, done, u,
            improved_through(relationship_map, dist, done, u))

dijkstra(relationship_map, dist, paths, done) ==
    IF DOMAIN dist \ done = {} THEN paths
    ELSE relaxed_through(relationship_map, dist, paths, done,
                         nearest_of(dist, DOMAIN dist \ done))

\* ontology._compute_shortest_paths_from_environment
path_map_of(relationship_map, raw_path_map) ==
    LET segments(raw_path) ==
            [k \in 1..(Len(raw_path) - 1) |->
                [source |-> raw_path[k], target |-> raw_path[k + 1],
                 relationship |-> relationship_map[<<raw_path[k], raw_path[k + 1]>>]]]
    IN [cls \in {c \in SeqRange(OntologyClasses) :
                    c = "Environment" \/ c \in DOMAIN raw_path_map} |->
           IF cls = "Environment" THEN <<>> ELSE segments(raw_path_map[cls])]

_compute_shortest_paths_from_environment(relationship_map) ==
    path_map_of(relationship_map,
                dijkstra(relationship_map, [n \in {"Environment"} |-> 0],
                         [n \in {"Environment"} |-> <<"Environment">>], {}))

\* classes_in_environment of generate_wrapping._generate, which is what
\* wrapping.lives_in_environment tells
classes_in_environment(path_map) ==
    {cls \in SeqRange(OntologyClasses) :
        cls \in DOMAIN path_map /\ Len(path_map[cls]) # 0}

OntologyUnchanged ==
    UNCHANGED <<hashes, salt, unrepairable, heap, pheap, cases, pc, minimal_case,
                maximal_case, lastFix, verified, run, firstRun>>

\* ClassGraph(relationship_map, shortest_paths), and the classes that the
\* generator of the cases builds self-contained
ClassGraph(symbol_table, relationship_map, path_map) ==
    [made |-> TRUE, symbol_table |-> symbol_table,
     relationship_map |-> relationship_map,
     shortest_paths |-> path_map,
     self_contained |-> SeqRange(OntologyClasses) \ classes_in_environment(path_map)]

class_graph_of(symbol_table, relationship_map) ==
    ClassGraph(symbol_table, relationship_map,
               _compute_shortest_paths_from_environment(relationship_map))

\* ontology.compute_class_graph
compute_class_graph(symbol_table) ==
    class_graph_of(symbol_table, _compute_relationship_map(symbol_table))

\* compute_class_graph(symbol_table), and what the generators make of it
ComputeClassGraph ==
    /\ ~lastCall.made
    /\ \E symbol_table \in OntologyTables :
           lastCall' = compute_class_graph(symbol_table)
    /\ OntologyUnchanged

SpecOntology == InitCall /\ [][ComputeClassGraph]_vars

\* whether the symbol table lets an instance of target be a non-list
\* property, or an item of a list property, of an instance of source
CanBeProperty(symbol_table, source, target) ==
    \E k \in 1..Len(symbol_table[source]) :
        /\ symbol_table[source][k].kind = "class"
        /\ \/ symbol_table[source][k].our_type = target
           \/ target \in SeqRange(OntologyDescendants(symbol_table[source][k].our_type))

CanBeItem(symbol_table, source, target) ==
    \E k \in 1..Len(symbol_table[source]) :
        /\ symbol_table[source][k].kind = "list"
        /\ \/ symbol_table[source][k].our_type = target
           \/ target \in SeqRange(OntologyDescendants(symbol_table[source][k].our_type))

\* the chains of hops that continue the given one, no class twice
RECURSIVE ChainsFrom(_, _)
ChainsFrom(symbol_table, chain) ==
    {chain} \cup
    UNION {ChainsFrom(symbol_table, Append(chain, cls)) :
              cls \in {c \in SeqRange(OntologyClasses) \ SeqRange(chain) :
                          \/ CanBeProperty(symbol_table, chain[Len(chain)], c)
                          \/ CanBeItem(symbol_table, chain[Len(chain)], c)}}

RECURSIVE ChainWeight(_, _)
ChainWeight(symbol_table, chain) ==
    IF Len(chain) < 2 THEN 0
    ELSE (IF CanBeProperty(symbol_table, chain[1], chain[2]) THEN 1 ELSE 2)
         + ChainWeight(symbol_table, Tail(chain))

\* the classes a path goes through
Walked(path) == <<"Environment">> \o [k \in 1..Len(path) |-> path[k].target]

CheapestAmong(symbol_table, weight, chains) ==
    \A chain \in chains : weight <= ChainWeight(symbol_table, chain)

RecordedFor(st, cls, chains) ==
    IF chains = {}
    THEN /\ cls \notin DOMAIN lastCall.shortest_paths
         /\ cls \in lastCall.self_contained
    ELSE /\ cls \in DOMAIN lastCall.shortest_paths
         /\ cls \notin lastCall.self_contained
         /\ LET path == lastCall.shortest_paths[cls]
            IN /\ Len(path) > 0
               /\ path[1].source = "Environment"
               /\ path[Len(path)].target = cls
               /\ \A k \in 1..(Len(path) - 1) : path[k].target = path[k + 1].source
               /\ \A k \in 1..Len(path) :
                      /\ \/ CanBeProperty(st, path[k].source, path[k].target)
                         \/ CanBeItem(st, path[k].source, path[k].target)
                      /\ path[k].relationship.kind = "property"
                             <=> CanBeProperty(st, path[k].source, path[k].target)
               /\ CheapestAmong(st, ChainWeight(st, Walked(path)), chains)

RecordedForAll(st, chains) ==
    \A cls \in SeqRange(OntologyClasses) \ {"Environment"} :
        RecordedFor(st, cls, {chain \in chains : chain[Len(chain)] = cls})

\* C23: a class that some chain of hops from Environment reaches has a
\* recorded path; its segments start at Environment, end at the class, each
\* begins where the one before ended, each is a property hop where the
\* target can be a non-list property of the source and a list hop otherwise,
\* and no chain from Environment to the class weighs less (a property hop
\* weighs 1, a list hop 2).  A class that no chain reaches has no recorded
\* path, and it is built self-contained, as Environment is.
C23_RecordedPathsAreCheapestChains ==
    lastCall.made =>
        /\ "Environment" \in lastCall.self_contained
        /\ RecordedForAll(lastCall.symbol_table,
                          ChainsFrom(lastCall.symbol_table, <<"Environment">>))

\* Key is reached by two list hops through Submodel and by two property
\* hops through Property, and the path recorded goes through Property
C23_Witness ==
    /\ lastCall.made
    /\ lastCall.symbol_table["Environment"]
           = <<[kind |-> "list", our_type |-> "Submodel"],
               [kind |-> "class", our_type |-> "Submodel_element"]>>
    /\ lastCall.symbol_table["Submodel"] = <<[kind |-> "list", our_type |-> "Key"]>>
    /\ lastCall.symbol_table["Property"] = <<[kind |-> "class", our_type |-> "Key"]>>
    /\ lastCall.shortest_paths["Key"]
           = <<[source |-> "Environment", target |-> "Property",
                relationship |-> [kind |-> "property", property_name |-> 2]],
               [source |-> "Property", target |-> "Key",
                relationship |-> [kind |-> "property", property_name |-> 1]]>>
    /\ lastCall.self_contained = {"Environment"}

-----------------------------------------------------------------------------
(* SpecKinds: the classes of the cases.  A case is constructed by the       *)
(* __init__ of its class, which hands a literal for expected to             *)
(* Case.__init__, and generate_json then reads the flag in _relative_path.  *)
(* The kind of a case is the name of its class without "Case".              *)

CaseKinds ==
    {"Minimal", "Maximal", "TypeViolation", "PositivePatternExample", "PatternViolation",
     "RequiredViolation", "NullViolation", "MinLengthViolation", "MaxLengthViolation",
     "UnexpectedAdditionalProperty", "DateTimeUtcViolationOnFebruary29th",
     "PositiveValueExample", "InvalidValueExample", "PositiveMinMaxExample",
     "InvalidMinMaxExample", "EnumViolation", "PositiveManual", "SetViolation",
     "ConstraintViolation"}

\* a flag told by the name of the class
expected_by_name(kind) ==
    kind \in {"PositivePatternExample", "PositiveValueExample", "PositiveMinMaxExample",
              "PositiveManual"}

\* the literal that the __init__ of the class hands to Case.__init__
expected_in_init(kind) ==
    CASE kind = "Minimal" -> TRUE
      [] kind = "Maximal" -> TRUE
      [] kind = "TypeViolation" -> FALSE
      [] kind = "PositivePatternExample" -> TRUE
      [] kind = "PatternViolation" -> FALSE
      [] kind = "RequiredViolation" -> FALSE
      [] kind = "NullViolation" -> FALSE
      [] kind = "MinLengthViolation" -> FALSE
      [] kind = "MaxLengthViolation" -> FALSE
      [] kind = "UnexpectedAdditionalProperty" -> FALSE
      [] kind = "DateTimeUtcViolationOnFebruary29th" -> FALSE
      [] kind = "PositiveValueExample" -> TRUE
      [] kind = "InvalidValueExample" -> FALSE
      [] kind = "PositiveMinMaxExample" -> TRUE
      [] kind = "InvalidMinMaxExample" -> FALSE
      [] kind = "EnumViolation" -> FALSE
      [] kind = "PositiveManual" -> TRUE
      [] kind = "SetViolation" -> FALSE
      [] kind = "ConstraintViolation" -> FALSE

\* CaseX(...): Case.__init__ assigns self.expected
constructed(kind) == [kind |-> kind, expected |-> expected_in_init(kind)]

\* generate_json._relative_path: the directory the class of the case is
\* written to, and the cause, which is read from the flag; an unexpected
\* directory without a cause fails an assertion
_relative_path(test_case) ==
    LET cause == IF ~test_case.expected THEN test_case.kind ELSE ""
        unexpected(kind_of_negative) ==
            IF cause = ""
            THEN [raised |-> TRUE, directory |-> "", cause |-> ""]
            ELSE [raised |-> FALSE,
                  directory |-> <<"Unexpected", kind_of_negative>>, cause |-> cause]
    IN IF test_case.kind \in {"Minimal", "Maximal", "PositivePatternExample",
                              "PositiveValueExample", "PositiveMinMaxExample",
                              "PositiveManual"}
       THEN [raised |-> FALSE, directory |-> <<"Expected">>, cause |-> ""]
       ELSE IF test_case.kind \in {"TypeViolation", "RequiredViolation", "NullViolation",
                                   "UnexpectedAdditionalProperty", "EnumViolation"}
       THEN unexpected("Unserializable")
       ELSE unexpected("Invalid")

KindsUnchanged ==
    UNCHANGED <<hashes, salt, unrepairable, heap, pheap, cases, pc, minimal_case,
                maximal_case, lastFix, verified, run, firstRun>>

\* a generator constructs a case and yields it
YieldConstructed ==
    /\ IF lastCall.made
       THEN Len(lastCall.yielded) = Len(lastCall.paths)
            /\ Len(lastCall.yielded) < MaxCases
       ELSE TRUE
    /\ \E kind \in CaseKinds :
           lastCall' = [made |-> TRUE,
                        yielded |-> (IF lastCall.made THEN lastCall.yielded ELSE <<>>)
                                    \o <<constructed(kind)>>,
                        paths |-> IF lastCall.made THEN lastCall.paths ELSE <<>>]
    /\ KindsUnchanged

\* the body of the loop of generate_json.generate for the case yielded
RelativePathOfCase ==
    /\ lastCall.made /\ Len(lastCall.paths) < Len(lastCall.yielded)
    /\ lastCall' =
           [lastCall EXCEPT
               !.paths = Append(lastCall.paths,
                                _relative_path(lastCall.yielded[Len(lastCall.yielded)]))]
    /\ KindsUnchanged

NextKinds == YieldConstructed \/ RelativePathOfCase

SpecKinds == InitCall /\ [][NextKinds]_vars

PositiveKinds ==
    {"Minimal", "Maximal", "PositivePatternExample", "PositiveValueExample",
     "PositiveMinMaxExample", "PositiveManual"}

\* C24: a case is expected exactly if its kind is Minimal, Maximal,
\* PositivePatternExample, PositiveValueExample, PositiveMinMaxExample or
\* PositiveManual, and neither the kind nor the flag of a case that was
\* yielded changes in any later step.
C24_ExpectedIsFixedByKind ==
    /\ [](lastCall.made =>
              \A i \in 1..Len(lastCall.yielded) :
                  lastCall.yielded[i].expected
                      <=> lastCall.yielded[i].kind \in PositiveKinds)
    /\ [][lastCall.made =>
              \A i \in 1..Len(lastCall.yielded) :
                  /\ lastCall'.yielded[i].kind = lastCall.yielded[i].kind
                  /\ lastCall'.yielded[i].expected = lastCall.yielded[i].expected]_vars

\* a Minimal case and a ConstraintViolation case were yielded and written
C24_Witness ==
    /\ lastCall.made
    /\ Len(lastCall.yielded) = 2 /\ Len(lastCall.paths) = 2
    /\ lastCall.yielded[1] = [kind |-> "Minimal", expected |-> TRUE]
    /\ lastCall.yielded[2] = [kind |-> "ConstraintViolation", expected |-> FALSE]
    /\ lastCall.paths[2].cause = "ConstraintViolation"

-----------------------------------------------------------------------------
(* The required violations of a class against its minimal case.             *)

\* the place of a key in the dictionary of a node of an unfolded snapshot,
\* 0 if the node does not hold it
KeyIndex(node, key) ==
    IF Contains(node.keys, key)
    THEN CHOOSE j \in 1..Len(node.keys) : node.keys[j] = key
    ELSE 0

\* the key under which a snapshot holds the attribute a segment names
KeyOfSegment(node, segment) ==
    Properties(node.cls)[PropertyIndex(node.cls, segment.s[1])].name

\* the node of an unfolded snapshot at the path of a replica, from the
\* i-th segment on
RECURSIVE NodeAt(_, _, _)
NodeAt(node, path, i) ==
    IF i > Len(path) THEN node
    ELSE LET value == node.vals[KeyIndex(node, KeyOfSegment(node, path[i]))]
         IN IF value.k = "list"
            THEN NodeAt(value.nested[path[i + 1].i + 1], path, i + 2)
            ELSE NodeAt(value.nested[1], path, i + 1)

\* a node without one of its keys
WithoutKey(node, key) ==
    LET kept == {j \in 1..Len(node.keys) : node.keys[j] # key}
        pick(seq) == [i \in 1..Cardinality(kept) |->
                         seq[CHOOSE j \in kept :
                                Cardinality({other \in kept : other < j}) = i - 1]]
    IN [node EXCEPT !.keys = pick(node.keys), !.vals = pick(node.vals)]

\* an unfolded snapshot in which the node at the path lost a key and
\* nothing else changed
RECURSIVE TreeWithout(_, _, _, _)
TreeWithout(node, path, i, key) ==
    IF i > Len(path) THEN WithoutKey(node, key)
    ELSE LET j == KeyIndex(node, KeyOfSegment(node, path[i]))
             value == node.vals[j]
         IN IF value.k = "list"
            THEN [node EXCEPT !.vals[j].nested[path[i + 1].i + 1] =
                                  TreeWithout(@, path, i + 2, key)]
            ELSE [node EXCEPT !.vals[j].nested[1] = TreeWithout(@, path, i + 1, key)]

ClassPosition(cls) == CHOOSE c \in 1..Len(ConcreteClasses) : ConcreteClasses[c] = cls

\* the generator has left the loop of _generate_required_violations of the
\* class of the i-th case behind
PastRequiredViolations(i) ==
    /\ pc.status \in {"running", "done"}
    /\ \/ ClassPosition(cases[i].cls) < pc.c
       \/ /\ ClassPosition(cases[i].cls) = pc.c
          /\ PhaseIndex(pc.phase) > PhaseIndex("required_violation")

\* the required violations yielded for a property of the class of the
\* i-th case
RequiredViolationsOf(i, name) ==
    {j \in 1..Len(cases) : /\ cases[j].kind = "RequiredViolation"
                           /\ cases[j].cls = cases[i].cls
                           /\ cases[j].metadata.property_name = name}

\* the non-optional properties that the focus node of the minimal snapshot
\* holds
RequiredInFocus(case) ==
    {k \in 1..Len(Properties(case.cls)) :
        /\ ~Properties(case.cls)[k].optional
        /\ KeyIndex(NodeAt(case.tree, case.replica.path, 1),
                    Properties(case.cls)[k].name) # 0}

\* C25: once the generator is past the required violations of a class, every
\* non-optional property that the focus node of the minimal snapshot holds
\* has exactly one RequiredViolation case; the focus node of that case does
\* not hold the key at all, and the tree of the case is the tree of the
\* Minimal case without that key of the focus node: every other key and
\* value is the same.
C25_RequiredViolationRemovesTheKey ==
    \A i \in 1..Len(cases) :
        (cases[i].kind = "Minimal" /\ PastRequiredViolations(i)) =>
            \A k \in RequiredInFocus(cases[i]) :
                LET name == Properties(cases[i].cls)[k].name
                    violations == RequiredViolationsOf(i, name)
                IN /\ Cardinality(violations) = 1
                   /\ \A j \in violations :
                         /\ j > i
                         /\ ~cases[j].expected
                         /\ KeyIndex(NodeAt(cases[j].tree, cases[i].replica.path, 1),
                                     name) = 0
                         /\ cases[j].tree =
                               TreeWithout(cases[i].tree, cases[i].replica.path, 1, name)

\* the generator finished; the minimal Property lies two levels below the
\* environment, its only non-optional property value_type is gone from the
\* focus node of the RequiredViolation case, and the NullViolation case of
\* the same property keeps the key
C25_Witness ==
    /\ pc.status = "done"
    /\ \E i, j, n \in 1..Len(cases) :
          /\ cases[i].kind = "Minimal" /\ cases[i].cls = "Property"
          /\ Len(cases[i].replica.path) > 2
          /\ RequiredInFocus(cases[i]) = {2}
          /\ cases[j].kind = "RequiredViolation" /\ cases[j].cls = "Property"
          /\ cases[j].metadata.property_name = "value_type"
          /\ KeyIndex(NodeAt(cases[j].tree, cases[i].replica.path, 1), "value_type") = 0
          /\ cases[n].kind = "NullViolation" /\ cases[n].cls = "Property"
          /\ KeyIndex(NodeAt(cases[n].tree, cases[i].replica.path, 1), "value_type") # 0

-----------------------------------------------------------------------------
(* The cases of value and value type against the catalogue of examples.     *)

\* the classes of class_set_with_value_and_value_type that the fragment has
ClassesWithValueAndValueType == {"Property"}

\* generate() has left the class of the i-th case behind: the loop of
\* _generate_cases_for_value_and_value_types is the last one of the body
PastValueExamples(i) ==
    /\ pc.status \in {"running", "done"}
    /\ ClassPosition(cases[i].cls) < pc.c

\* the cases yielded for an example of a literal for the class of the i-th
\* case
ValueCasesOf(i, kind, literal, example_name) ==
    {j \in 1..Len(cases) : /\ cases[j].kind = kind
                           /\ cases[j].cls = cases[i].cls
                           /\ cases[j].metadata.literal = literal
                           /\ cases[j].metadata.example_name = example_name}

\* what the focus node of a case holds under a key
FocusValue(i, j, key) ==
    LET focus == NodeAt(cases[j].tree, cases[i].replica.path, 1)
    IN focus.vals[KeyIndex(focus, key)]

\* one case for the example, tagged with the literal and holding the value
OneCaseFor(i, kind, literal, example, expected) ==
    /\ Cardinality(ValueCasesOf(i, kind, literal, example.name)) = 1
    /\ \A j \in ValueCasesOf(i, kind, literal, example.name) :
          /\ j > i
          /\ cases[j].expected = expected
          /\ FocusValue(i, j, "value_type").k = "str"
          /\ FocusValue(i, j, "value_type").s = literal
          /\ FocusValue(i, j, "value").k = "str"
          /\ FocusValue(i, j, "value").s = example.value

\* C26: once generate() has left a class with a value and a value type
\* behind, every positive example of every literal of Data_type_def_XSD has
\* exactly one PositiveValueExample case (expected) and every negative
\* example exactly one InvalidValueExample case (not expected); the focus
\* node of the case holds the literal as value_type and the example as
\* value.
C26_OneCasePerLiteralAndExample ==
    \A i \in 1..Len(cases) :
        (/\ cases[i].kind = "Minimal"
         /\ cases[i].cls \in ClassesWithValueAndValueType
         /\ PastValueExamples(i)) =>
            \A l \in 1..Len(Literals("Data_type_def_XSD")) :
                LET literal == Literals("Data_type_def_XSD")[l]
                IN /\ \A e \in 1..Len(XsPositives(literal)) :
                         OneCaseFor(i, "PositiveValueExample", literal,
                                    XsPositives(literal)[e], TRUE)
                   /\ \A e \in 1..Len(XsNegatives(literal)) :
                         OneCaseFor(i, "InvalidValueExample", literal,
                                    XsNegatives(literal)[e], FALSE)

\* the generator finished; for the Property there is the case of xs:boolean
\* with the value "true", expected, and the case of xs:boolean with the
\* value "TRUE", not expected
C26_Witness ==
    /\ pc.status = "done"
    /\ \E i, j, n \in 1..Len(cases) :
          /\ cases[i].kind = "Minimal" /\ cases[i].cls = "Property"
          /\ cases[j].kind = "PositiveValueExample" /\ cases[j].cls = "Property"
          /\ cases[j].metadata.literal = "xs:boolean"
          /\ FocusValue(i, j, "value_type").s = "xs:boolean"
          /\ FocusValue(i, j, "value").s = "true"
          /\ cases[j].expected
          /\ cases[n].kind = "InvalidValueExample" /\ cases[n].cls = "Property"
          /\ cases[n].metadata.literal = "xs:boolean"
          /\ FocusValue(i, n, "value_type").s = "xs:boolean"
          /\ FocusValue(i, n, "value").s = "TRUE"
          /\ ~cases[n].expected

-----------------------------------------------------------------------------
(* preserialize on a container in which one instance sits in more than one  *)
(* place.  The container is the one of                                      *)
(* _create_replica_with_two_boolean_properties: an environment, a submodel  *)
(* and a submodel element list whose items may hold the reference of        *)
(* semantic_id_list_element itself.  Every submodel element has a           *)
(* semantic_ID; the fragment has it on Submodel_element_list, so the items  *)
(* are lists themselves.                                                    *)

\* what an item is given as its semantic_id
ItemChoices == {"none", "own", "shared"}

\* a new external reference with one key
NewExternalReference(h) ==
    NewReference(NewKey(h, "generation", "GlobalReference",
                        VStr("https://example.com/something-global", 0)).heap,
                 "generation", "ExternalReference", <<Len(h) + 1>>)

\* the items of the list, one after the other: the heap afterwards and the
\* items
RECURSIVE NewItems(_, _, _, _, _)
NewItems(h, items, i, list_element, ids) ==
    IF i > Len(items) THEN [heap |-> h, ids |-> ids]
    ELSE LET Item(before, semantic_id) ==
                 NewItems(Append(before,
                                 NewInstance("Submodel_element_list",
                                             <<VNone, semantic_id, VNone, VNone>>,
                                             "generation", <<>>)),
                          items, i + 1, list_element, Append(ids, Len(before) + 1))
             Own(reference) == Item(reference.heap, VObj(reference.id))
         IN IF items[i] = "own" THEN Own(NewExternalReference(h))
            ELSE IF items[i] = "shared" /\ list_element # None
            THEN Item(h, VObj(list_element))
            ELSE Item(h, VNone)

\* the environment, the submodel and the list around the items, and the
\* replica of the list
list_in_environment(has_list_element, items) ==
    LET Wrapped(h, list) ==
            [heap |-> h \o << NewInstance("Submodel",
                                          << VStr("https://example.com/some-submodel", 0),
                                             VNone, VList(<<list>>) >>,
                                          "generation", <<>>),
                              NewInstance("Environment",
                                          <<VNone, VList(<<Len(h) + 1>>)>>,
                                          "generation", <<>>) >>,
             replica |-> NewReplica(Len(h) + 2, list,
                                    << NameSeg("submodels"), IntSeg(0),
                                       NameSeg("submodel_elements"), IntSeg(0) >>)]
        Listed(made, list_element) ==
            Wrapped(Append(made.heap,
                           NewInstance("Submodel_element_list",
                                       << VStr("someList", 0), VNone,
                                          IF list_element = None THEN VNone
                                          ELSE VObj(list_element),
                                          IF Len(made.ids) = 0 THEN VNone
                                          ELSE VList(made.ids) >>,
                                       "generation", <<>>)),
                    Len(made.heap) + 1)
        With(h, list_element) ==
            Listed(NewItems(h, items, 1, list_element, <<>>), list_element)
        Referred(reference) == With(reference.heap, reference.id)
    IN IF has_list_element THEN Referred(NewExternalReference(<<>>))
       ELSE With(<<>>, None)

\* _Handyman._fix_submodel_element_list, AASd-107 and AASd-114: the items
\* that have a semantic_id are given the one of the list or, without it,
\* the first one among the items; the very instance, not a copy
_fix_submodel_element_list(h, that) ==
    LET value == Get(h, that, "value")
        list_element == Get(h, that, "semantic_id_list_element")
        having == {i \in 1..Len(value.l) : Get(h, value.l[i], "semantic_id").k # "none"}
        semantic_id ==
            IF list_element.k # "none" THEN list_element
            ELSE IF having = {} THEN VNone
            ELSE Get(h, value.l[Min(having)], "semantic_id")
    IN IF value.k = "none" \/ semantic_id.k = "none" THEN h
       ELSE [id \in 1..Len(h) |->
                IF \E i \in having : value.l[i] = id
                THEN Set(h, id, "semantic_id", semantic_id)[id]
                ELSE h[id]]

\* the places below an instance in the order in which the calls of
\* transform return: the places below a nested instance, then the nested
\* instance itself
RECURSIVE Places(_, _, _)
Places(h, that, prefix) ==
    LET props == Properties(h[that].cls)
        Below(instance, path) ==
            Places(h, instance, path) \o <<[path |-> path, instance |-> instance]>>
        name(k) == NameSeg(PropertyName(props[k].name))
        value(k) == h[that].props[k]
    IN Concat([k \in 1..Len(props) |->
                  IF value(k).k = "obj"
                  THEN Below(value(k).o, Append(prefix, name(k)))
                  ELSE IF value(k).k = "list"
                  THEN Concat([i \in 1..Len(value(k).l) |->
                                  Below(value(k).l[i],
                                        prefix \o <<name(k), IntSeg(i - 1)>>)])
                  ELSE <<>>])

PlacesFrom(h, root) == Places(h, root, <<>>) \o <<[path |-> <<>>, instance |-> root]>>

\* the node of a snapshot at a path, from the i-th segment on
RECURSIVE SnapshotAt(_, _, _, _)
SnapshotAt(ph, node, path, i) ==
    IF i > Len(path) THEN node
    ELSE LET key == Properties(ph[node].cls)[PropertyIndex(ph[node].cls,
                                                           path[i].s[1])].name
             value == GetKey(ph, node, key)
         IN IF value.k = "list"
            THEN SnapshotAt(ph, value.l[path[i + 1].i + 1], path, i + 2)
            ELSE SnapshotAt(ph, value.o, path, i + 1)

PreserializeUnchanged ==
    UNCHANGED <<hashes, salt, unrepairable, cases, pc, minimal_case, maximal_case,
                lastFix, verified, run, firstRun>>

\* the container and the replica of the list, built by hand or with the hook
\* of the list run on it
built_list(has_list_element, hooked, items) ==
    LET AfterHook(made) ==
            [heap |-> IF hooked
                      THEN _fix_submodel_element_list(made.heap, made.replica.instance)
                      ELSE made.heap,
             call |-> [made |-> TRUE, at |-> "built", hooked |-> hooked,
                       replica |-> made.replica, root |-> None, map |-> <<>>,
                       id |-> None]]
    IN AfterHook(list_in_environment(has_list_element, items))

BuildListInEnvironment ==
    /\ ~lastCall.made
    /\ \E has_list_element, hooked \in BOOLEAN, items \in SeqsUpTo(ItemChoices, MaxItems) :
          /\ heap' = built_list(has_list_element, hooked, items).heap
          /\ lastCall' = built_list(has_list_element, hooked, items).call
    /\ pheap' = <<>>
    /\ PreserializeUnchanged

\* preserialize(that) on an instance of the container
Preserialize ==
    /\ IF lastCall.made THEN lastCall.at = "built" ELSE FALSE
    /\ \E that \in Reachable(heap, lastCall.replica.container) :
          /\ pheap' = preserialize(pheap, heap, that).pheap
          /\ lastCall' = [lastCall EXCEPT !.at = "preserialized",
                                          !.root = that,
                                          !.map = preserialize(pheap, heap, that).map,
                                          !.id = preserialize(pheap, heap, that).id]
    /\ heap' = heap
    /\ PreserializeUnchanged

\* replica.replicate() and preserialize(replica.container), as the
\* generators of the derived cases do
ReplicateAndPreserialize ==
    /\ IF lastCall.made THEN lastCall.at = "built" ELSE FALSE
    /\ heap' = replicate(heap, lastCall.replica).heap
    /\ pheap' = preserialize(pheap, replicate(heap, lastCall.replica).heap,
                             replicate(heap, lastCall.replica).replica.container).pheap
    /\ lastCall' =
          [lastCall EXCEPT
              !.at = "replicated",
              !.replica = replicate(heap, lastCall.replica).replica,
              !.root = replicate(heap, lastCall.replica).replica.container,
              !.map = preserialize(pheap, replicate(heap, lastCall.replica).heap,
                                   replicate(heap, lastCall.replica).replica.container).map,
              !.id = preserialize(pheap, replicate(heap, lastCall.replica).heap,
                                  replicate(heap, lastCall.replica).replica.container).id]
    /\ PreserializeUnchanged

NextPreserialize ==
    \/ BuildListInEnvironment
    \/ Preserialize
    \/ ReplicateAndPreserialize

SpecPreserialize == InitCall /\ [][NextPreserialize]_vars

Preserialized == IF lastCall.made THEN lastCall.at \in {"preserialized", "replicated"}
                 ELSE FALSE

\* the places below the root of the call in the order of the traversal, and
\* the node of the snapshot at each of them
CallPlaces == PlacesFrom(heap, lastCall.root)

NodesAt(places) ==
    [n \in 1..Len(places) |-> SnapshotAt(pheap, lastCall.id, places[n].path, 1)]

\* the places at which an instance sits, as positions in that order
PlacesOf(places, instance) == {n \in 1..Len(places) : places[n].instance = instance}

GivesTheNodeAtEveryPlace(places, nodes, reachable) ==
    /\ \A x \in reachable : lastCall.map[x] # 0
    /\ \A n \in 1..Len(places) : lastCall.map[places[n].instance] = nodes[n]

\* C27 as stated: the map has an entry for every instance reachable from
\* the root, and the node it gives is the node of the snapshot at the path
\* at which the instance sits, at whichever place the instance sits.
C27_MapGivesTheNodeAtEveryPlace ==
    Preserialized =>
        \A places \in {CallPlaces} :
            \A nodes \in {NodesAt(places)}, reachable \in {Reachable(heap, lastCall.root)} :
                GivesTheNodeAtEveryPlace(places, nodes, reachable)

GivesTheNodeOfTheLastPlace(places, nodes, reachable) ==
    /\ \A x \in 1..Len(heap) : (x \in reachable) <=> (lastCall.map[x] # 0)
    /\ \A n, m \in 1..Len(places) :
          /\ pheap[nodes[n]].of = places[n].instance
          /\ (n # m) => nodes[n] # nodes[m]
    /\ \A x \in reachable :
          /\ PlacesOf(places, x) # {}
          /\ \A n \in PlacesOf(places, x) :
                (\A m \in PlacesOf(places, x) : m <= n) => lastCall.map[x] = nodes[n]
    /\ (lastCall.at = "replicated") =>
          /\ Cardinality(PlacesOf(places, lastCall.replica.instance)) = 1
          /\ lastCall.map[lastCall.replica.instance] =
                SnapshotAt(pheap, lastCall.id, lastCall.replica.path, 1)

\* C27: the map has an entry for exactly the instances reachable from the
\* root; every place at which an instance sits has a node of its own in the
\* snapshot, made of that instance; the map gives for an instance the node
\* of the place that the traversal left last, which is the node at the
\* path of the instance when the instance sits in one place only, as the
\* focus instance of a replica does.
C27_MapGivesTheNodeOfTheLastPlace ==
    Preserialized =>
        \A places \in {CallPlaces} :
            \A nodes \in {NodesAt(places)}, reachable \in {Reachable(heap, lastCall.root)} :
                GivesTheNodeOfTheLastPlace(places, nodes, reachable)

SharedInThreePlaces(places, nodes, reachable) ==
    \E x \in reachable :
        /\ Cardinality(PlacesOf(places, x)) = 3
        /\ \E n, m \in PlacesOf(places, x) :
              /\ n < m
              /\ lastCall.map[x] = nodes[m]
              /\ lastCall.map[x] # nodes[n]
              /\ Unfold(pheap, nodes[n]) = Unfold(pheap, nodes[m])

\* the hook gave the two items the reference of the list; the deep copy
\* keeps the reference in its three places, the snapshot has three nodes
\* for it, and the map gives the one below the second item
C27_Witness ==
    /\ Preserialized
    /\ lastCall.at = "replicated"
    /\ lastCall.hooked
    /\ \E places \in {CallPlaces} :
          \E nodes \in {NodesAt(places)}, reachable \in {Reachable(heap, lastCall.root)} :
              SharedInThreePlaces(places, nodes, reachable)
    /\ lastCall.map[lastCall.replica.instance] =
          SnapshotAt(pheap, lastCall.id, lastCall.replica.path, 1)

-----------------------------------------------------------------------------
(* primitiving.generate_bytes.  The loop of the function is followed turn   *)
(* by turn: lastCall holds the locals of the call.  A byte string is the    *)
(* sequence of its parts, a part the number of the digest it was cut from   *)
(* (0: the digest of the path hash, n: the digest after n re-hashes) and    *)
(* the number of bytes taken from its start.                                *)

\* len(path_hash.digest()): the bytes of an md5 digest
DigestSize == 16

\* the lengths a caller may ask for; NoBound stands for None
Lengths == {NoBound} \cup 0..MaxBytes

\* len(sequence[:stop]) for a sequence of the given length
LenOfSliceTo(length, stop) ==
    IF stop >= 0 THEN (IF stop < length THEN stop ELSE length)
    ELSE IF length + stop > 0 THEN length + stop ELSE 0

\* count, as the chain of elif gives it
count_of(min_len, max_len) ==
    IF min_len = NoBound /\ max_len = NoBound THEN 11
    ELSE IF min_len # NoBound /\ max_len = NoBound THEN min_len
    ELSE IF min_len = NoBound /\ max_len # NoBound
    THEN (IF max_len < 11 THEN max_len ELSE 11)
    ELSE min_len

TotalOf(parts) == Sum([i \in 1..Len(parts) |-> parts[i].taken], Len(parts))

\* the call up to the first test of the loop, or up to the return when the
\* digest is long enough
generate_bytes_called(path_hash, min_len, max_len) ==
    LET count == count_of(min_len, max_len)
    IN [made |-> TRUE, op |-> "generate_bytes", path_hash |-> path_hash,
        min_len |-> min_len, max_len |-> max_len, count |-> count,
        at |-> IF count <= DigestSize THEN "returned" ELSE "while",
        parts |-> IF count <= DigestSize
                  THEN <<[digest |-> 0, taken |-> LenOfSliceTo(DigestSize, count)]>>
                  ELSE <<>>,
        length |-> 0, current_digest |-> 0, turns |-> 0]

\* one test of "while length < count" and what follows it: a turn of the
\* loop, or the join, the assertion on the length and the return
generate_bytes_turn(call) ==
    LET remaining == call.length - call.count
    IN IF call.length < call.count
       THEN IF DigestSize < remaining
            THEN [call EXCEPT !.parts = Append(@, [digest |-> call.current_digest,
                                                   taken |-> DigestSize]),
                              !.length = @ + DigestSize,
                              !.current_digest = @ + 1,
                              !.turns = @ + 1]
            ELSE [call EXCEPT !.parts = Append(@, [digest |-> call.current_digest,
                                                   taken |-> LenOfSliceTo(DigestSize,
                                                                          remaining)]),
                              !.length = @ + remaining,
                              !.turns = @ + 1]
       ELSE [call EXCEPT !.at = IF TotalOf(call.parts) = call.count THEN "returned"
                                ELSE "raised"]

BytesUnchanged ==
    UNCHANGED <<hashes, salt, unrepairable, heap, pheap, cases, pc, minimal_case,
                maximal_case, lastFix, verified, run, firstRun>>

GenerateBytes ==
    /\ ~lastCall.made
    /\ \E path_hash \in DispatchHashes, min_len, max_len \in Lengths :
          /\ (min_len # NoBound /\ max_len # NoBound) => min_len <= max_len
          /\ lastCall' = generate_bytes_called(path_hash, min_len, max_len)
    /\ BytesUnchanged

\* the loop goes on; a behaviour follows it for MaxTurns turns
LoopOfGenerateBytes ==
    /\ IF lastCall.made THEN lastCall.at = "while" /\ lastCall.turns < MaxTurns
       ELSE FALSE
    /\ lastCall' = generate_bytes_turn(lastCall)
    /\ BytesUnchanged

NextBytes ==
    \/ GenerateBytes
    \/ LoopOfGenerateBytes

\* the interpreter keeps running the loop
SpecBytes ==
    InitCall /\ [][NextBytes]_vars /\ WF_vars(GenerateBytes) /\ WF_vars(LoopOfGenerateBytes)

\* the call returned a byte string within the bounds
ReturnedWithinBounds ==
    IF lastCall.made
    THEN /\ lastCall.at = "returned"
         /\ lastCall.min_len # NoBound => lastCall.min_len <= TotalOf(lastCall.parts)
         /\ lastCall.max_len # NoBound => TotalOf(lastCall.parts) <= lastCall.max_len
         /\ (lastCall.min_len = NoBound /\ lastCall.max_len = NoBound)
                => TotalOf(lastCall.parts) = 11
    ELSE FALSE

\* C28: every call of generate_bytes, whatever the path hash and the
\* bounds (each None or not negative, min_len <= max_len), returns after
\* finitely many turns of its loop a byte string whose length is within
\* the bounds, 11 without bounds; also when more bytes are asked for than
\* the 16 of one digest.
C28_GenerateBytesReturnsWithinBounds == <>ReturnedWithinBounds

\* why the loop does not end: while it runs, nothing has been added to the
\* parts and length has not risen above zero, so "length < count" stays
\* true on every turn, those past MaxTurns as well
LoopOfGenerateBytesAddsNothing ==
    (IF lastCall.made THEN lastCall.at = "while" ELSE FALSE) =>
        /\ lastCall.length <= 0
        /\ lastCall.length < lastCall.count
        /\ DigestSize >= lastCall.length - lastCall.count
        /\ TotalOf(lastCall.parts) = 0

-----------------------------------------------------------------------------
(* generate(): the order of the cases.  The symbol table is a sequence of   *)
(* types in the order of their declaration; of a case only the class, the   *)
(* kind and the part of generate() that yielded it are kept, and the        *)
(* generators of the derived cases are taken together: they yield a number  *)
(* of cases for the class.  Extension, Qualifier and Range, which           *)
(* generate() looks up as well, are outside the fragment.                   *)

\* the names of the types in the order of str.__lt__
NamesAscending ==
    << "Environment", "Property", "Reference", "Submodel", "Submodel_element",
       "Submodel_element_list" >>

NameRank(name) == CHOOSE r \in 1..Len(NamesAscending) : NamesAscending[r] = name

\* the types that are not concrete classes
AbstractNames == {"Submodel_element"}

\* the classes that generate() looks up with must_find_concrete_class
MustFind == {"Environment", "Property", "Reference", "Submodel_element_list"}

\* symbol_table.our_types: the types in any order of declaration
OurTypes ==
    {our_types \in UNION {[1..n -> SeqRange(NamesAscending)] : n \in 1..MaxTypes} :
        /\ \A i, j \in 1..Len(our_types) : (i # j) => our_types[i] # our_types[j]
        /\ MustFind \subseteq SeqRange(our_types)}

\* a sort that leaves the types in the order of their declaration
in_declaration_order(our_types) == our_types

\* sorted(symbol_table.our_types, key=lambda an_our_type: an_our_type.name)
sorted_by_name(our_types) ==
    [i \in 1..Len(our_types) |->
        CHOOSE name \in SeqRange(our_types) :
            Cardinality({other \in SeqRange(our_types) :
                            NameRank(other) < NameRank(name)}) = i - 1]

\* two of the cases of _AdditionalForSubmodelElementList.generate_cases and
\* two of the cases of _AdditionalForReference.generate_cases, a positive
\* one and a violation, in the order of their yields
AdditionalForSubmodelElementList ==
    << [cls |-> "Submodel_element_list", kind |-> "PositiveManual",
        by |-> "_AdditionalForSubmodelElementList"],
       [cls |-> "Submodel_element_list", kind |-> "ConstraintViolation",
        by |-> "_AdditionalForSubmodelElementList"] >>

AdditionalForReference ==
    << [cls |-> "Reference", kind |-> "ConstraintViolation",
        by |-> "_AdditionalForReference"],
       [cls |-> "Reference", kind |-> "PositiveManual",
        by |-> "_AdditionalForReference"] >>

\* the cases that one turn of the loop yields for a class
CasesOfClass(cls, derived) ==
    << [cls |-> cls, kind |-> "Minimal", by |-> "loop"],
       [cls |-> cls, kind |-> "Maximal", by |-> "loop"] >>
    \o [n \in 1..derived |-> [cls |-> cls, kind |-> "Derived", by |-> "loop"]]
    \o (IF cls = "Submodel_element_list" THEN AdditionalForSubmodelElementList
        ELSE <<>>)

\* the yields that lie ahead when the loop is at the c-th type, in the order
\* in which generate() reaches them
RECURSIVE Ahead(_, _, _)
Ahead(types, c, derived) ==
    IF c > Len(types) THEN AdditionalForReference
    ELSE IF types[c] \in AbstractNames THEN Ahead(types, c + 1, derived)
    ELSE CasesOfClass(types[c], derived) \o Ahead(types, c + 1, derived)

\* generate(symbol_table, ...) is called: the generator with all its yields
\* ahead
generate_called(our_types, derived) ==
    [made |-> TRUE, op |-> "generate", our_types |-> our_types, derived |-> derived,
     ahead |-> Ahead(sorted_by_name(our_types), 1, derived), yielded |-> <<>>]

OrderUnchanged ==
    UNCHANGED <<hashes, salt, unrepairable, heap, pheap, cases, pc, minimal_case,
                maximal_case, lastFix, verified, run, firstRun>>

CallGenerate ==
    /\ ~lastCall.made
    /\ \E our_types \in OurTypes, derived \in 0..MaxDerived :
          lastCall' = generate_called(our_types, derived)
    /\ OrderUnchanged

\* next() on the generator: the code up to the next yield
NextCase ==
    /\ IF lastCall.made THEN Len(lastCall.ahead) > 0 ELSE FALSE
    /\ lastCall' = [lastCall EXCEPT !.ahead = Tail(@),
                                    !.yielded = Append(@, Head(lastCall.ahead))]
    /\ OrderUnchanged

NextOrder ==
    \/ CallGenerate
    \/ NextCase

SpecOrder == InitCall /\ [][NextOrder]_vars

Yielded == IF lastCall.made THEN lastCall.yielded ELSE <<>>

\* the classes in ascending order of their names, Minimal first, Maximal
\* second and the other cases of the class after both, among the given
\* cases
InOrderOfClasses(ys) ==
    /\ \A i, j \in 1..Len(ys) :
          (i < j) => NameRank(ys[i].cls) <= NameRank(ys[j].cls)
    /\ \A i \in 1..Len(ys) :
          /\ (ys[i].kind = "Minimal") <=> (i = 1 \/ ys[i - 1].cls # ys[i].cls)
          /\ (ys[i].kind = "Maximal") <=> (i > 1 /\ ys[i - 1].kind = "Minimal")
          /\ (ys[i].kind = "Maximal") => ys[i - 1].cls = ys[i].cls
          /\ ys[i].cls \notin AbstractNames

\* no case of another class between two cases of the same class
Contiguous(ys) ==
    \A i, j, k \in 1..Len(ys) :
        (i < j /\ j < k /\ ys[i].cls = ys[k].cls) => ys[j].cls = ys[i].cls

\* the hand-written cases of the class Reference only after the cases of
\* all the classes
ReferenceCasesLast(ys) ==
    \A i, j \in 1..Len(ys) :
        (ys[i].by = "_AdditionalForReference" /\ ys[j].by # "_AdditionalForReference")
            => j < i

\* the cases that _AdditionalForReference did not yield
WithoutAdditionalForReference(ys) ==
    SubSeq(ys, 1, Cardinality({i \in 1..Len(ys) : ys[i].by # "_AdditionalForReference"}))

\* C29 as stated: the classes in ascending order of name, Minimal, Maximal
\* and then the derived cases for each, no case of another class between
\* two cases of the same class, and the hand-written cases of Reference
\* after the cases of all the classes.
C29_CasesOfAClassAreNeverInterleaved ==
    \A ys \in {Yielded} :
        /\ InOrderOfClasses(WithoutAdditionalForReference(ys))
        /\ Contiguous(ys)
        /\ ReferenceCasesLast(ys)

\* C29: the cases that the loop over the classes yields come in ascending
\* order of the class names, for each class Minimal first, Maximal second
\* and the other cases of the class after both, with no case of another
\* class between two of them; the hand-written cases of Reference, which
\* carry the class Reference as well, come after the cases of all the
\* classes, and so after the cases of the classes that sort after
\* Reference.
C29_LoopInOrderThenReferenceCases ==
    \A ys \in {Yielded} :
        /\ InOrderOfClasses(WithoutAdditionalForReference(ys))
        /\ Contiguous(WithoutAdditionalForReference(ys))
        /\ ReferenceCasesLast(ys)

\* the types were declared out of order; the generator has yielded
\* everything: the cases of Reference, of
\* Submodel and of the list with its derived and additional cases, and the
\* hand-written cases of Reference at the end
C29_Witness ==
    /\ lastCall.made
    /\ lastCall.op = "generate"
    /\ lastCall.ahead = <<>>
    /\ lastCall.derived = 1
    /\ lastCall.our_types[1] = "Submodel_element_list"
    /\ "Submodel" \in SeqRange(lastCall.our_types)
    /\ \E i, j, k \in 1..Len(lastCall.yielded) :
          /\ i < j /\ j < k
          /\ lastCall.yielded[i] = [cls |-> "Reference", kind |-> "Derived", by |-> "loop"]
          /\ lastCall.yielded[j] = [cls |-> "Submodel", kind |-> "Minimal", by |-> "loop"]
          /\ lastCall.yielded[k].by = "_AdditionalForReference"
          /\ k = Len(lastCall.yielded)

-----------------------------------------------------------------------------
(* dereference_instance on the container of a hand-built replica, with      *)
(* paths that follow the container for some segments and then leave it:     *)
(* integers below zero and beyond the length, names that are not            *)
(* attributes, an index into a str.                                         *)

\* a path through the container down to a str: the path of the list, its
\* first item and the id_short of the item
SpinePath(replica) ==
    replica.path \o <<NameSeg("value"), IntSeg(0), NameSeg("id_short")>>

DereferenceSegments ==
    {IntSeg(i) : i \in (0 - MaxIndex)..MaxIndex}
    \cup {NameSeg(name) : name \in {"id_short", "value", "no_such_attribute"}}

DereferencePaths(replica) ==
    {SubSeq(SpinePath(replica), 1, n) \o tail :
        n \in 0..Len(SpinePath(replica)),
        tail \in SeqsUpTo(DereferenceSegments, MaxTail)}

DereferenceInstance ==
    /\ IF lastCall.made THEN lastCall.at = "built" ELSE FALSE
    /\ \E path \in DereferencePaths(lastCall.replica) :
          lastCall' = [made |-> TRUE, at |-> "dereferenced",
                       container |-> lastCall.replica.container, path |-> path,
                       result |-> dereference_instance(heap, lastCall.replica.container,
                                                       path)]
    /\ UNCHANGED <<heap, pheap>>
    /\ PreserializeUnchanged

NextDereference ==
    \/ BuildListInEnvironment
    \/ DereferenceInstance

SpecDereference == InitCall /\ [][NextDereference]_vars

Dereferenced == IF lastCall.made THEN lastCall.at = "dereferenced" ELSE FALSE

\* C30: dereference_instance(container, path) never raises, whatever the
\* int and str segments of the path: it returns the instance and no error,
\* or no instance and an error message.
C30_DereferenceInstanceNeverRaises ==
    Dereferenced =>
        /\ ~lastCall.result.raised
        /\ (lastCall.result.instance # None) # (lastCall.result.error # "")

\* every call that does not index a sequence below its start returns the
\* instance and no error, or no instance and an error message
DereferenceReturnsButBelowTheStart ==
    (Dereferenced /\ ~lastCall.result.raised) =>
        (lastCall.result.instance # None) # (lastCall.result.error # "")

====
